---- MODULE Spec2Model ----
(***************************************************************************)
(* Model of mpris-native as state machines.                                *)
(*                                                                         *)
(* The spotifyd supervisor (src/supervisor.rs): every invocation of a      *)
(* public operation runs as its own task (lib.rs spawns one runtime task   *)
(* per call); a task advances one lock access, bus query, signal or /proc  *)
(* read at a time.  The operating system (process table, signals) and the  *)
(* session bus are the environment.                                        *)
(*                                                                         *)
(* The MPRIS controller (src/controller.rs): calls, the two property       *)
(* listeners and the consumers of the state-change channel; the daemon's   *)
(* answers are the environment.  Metadata parsing is also modelled on its  *)
(* own, over typed bus values.                                             *)
(*                                                                         *)
(* Supervisor and controller share no state; each specification moves one  *)
(* of them and leaves the other as constructed.                            *)
(***************************************************************************)
EXTENDS Integers, Sequences, FiniteSets, TLC

\* ------------------------------------------------------------------ bounds
MaxPid == 2
MaxTasks == 2
MaxOverlapEnvSteps == 1

\* ------------------------------------------------------- program constants
GracePolls == 20
RegistrationPolls == 30

Pids == 1 .. MaxPid
Tasks == 1 .. MaxTasks
\* Option<u32>::None
None == 0

VARIABLES
    procs,              \* OS process table: pid -> "none" | "S" | "Z" (state char)
    onBus,              \* pids owning a bus name org.mpris.MediaPlayer2.spotifyd*
    busUp,              \* the session bus can be reached and answers
    envSteps,           \* number of environment changes counted so far
    spawned_child_pid,  \* SupervisorInner.spawned_child_pid
    adopted_pid,        \* SupervisorInner.adopted_pid
    status,             \* value held by the watch channel status_tx
    receivers,          \* a watch::Receiver of status_tx is alive
    start_lock,         \* task holding start_lock, or None
    tk                  \* per task: program counter, locals and history

VARIABLES
    connection,         \* ControllerInner.connection holds a Connection
    player,             \* ControllerInner.player: bus name the proxy is bound to, or NoPlayer
    state,              \* ControllerInner.state: the cached PlaybackState
    state_tx,           \* the broadcast channel behind ControllerInner.state_tx
    rx,                 \* per consumer registered with on_state_change: task and Receiver
    listeners,          \* listener pairs started by start_signal_listener so far
    ct,                 \* the controller call in progress: position, locals, history
    lt,                 \* the change event the listeners are handling
    ops,                \* calls and listener events begun so far
    md                  \* metadata parsing taken alone: input, path and outcome

VARIABLES
    sw,                 \* the spawn of start_fresh taken alone: files, processes, locals
    lsn                 \* the snapshot write lock and the tasks that take it

env == <<procs, onBus, busUp, envSteps>>
sup == <<spawned_child_pid, adopted_pid, status, receivers, start_lock>>
ctl == <<connection, player, state, state_tx, rx, listeners, ct, lt, ops>>
vars == <<procs, onBus, busUp, envSteps, spawned_child_pid, adopted_pid,
          status, receivers, start_lock, tk,
          connection, player, state, state_tx, rx, listeners, ct, lt, ops, md, sw, lsn>>

\* a step of the supervisor or of its environment: the controller is
\* untouched, and so are the parser, the spawn and the snapshot lock taken alone
ControllerIdle == UNCHANGED <<ctl, md, sw, lsn>>

\* a step of the controller: the supervisor and its environment are
\* untouched, and so are the spawn and the snapshot lock taken alone
SupervisorIdle == UNCHANGED <<env, sup, tk, sw, lsn>>

\* ------------------------------------------------------------- data types
\* SpotifydStatus
SpotifydStatus(running, pid, authenticated) ==
    [running |-> running, pid |-> pid, authenticated |-> authenticated]

\* SpotifydStatus::default()
DefaultStatus == SpotifydStatus(FALSE, None, FALSE)

\* SpotifydStartResult (the message is kept as a short tag)
SpotifydStartResult(success, message, pid, adopted) ==
    [success |-> success, message |-> message, pid |-> pid, adopted |-> adopted]

NoResult == SpotifydStartResult(FALSE, "none", None, FALSE)

\* ------------------------------------------------- /proc/<pid>/stat parsing
\* Contents of /proc/<pid>/stat: "pid (comm) state ...", as characters; the
\* empty sequence stands for a file that cannot be read.
StatFile(pr, p) ==
    IF pr[p] = "none" THEN <<>>
    ELSE <<"p", " ", "(", "c", ")", " ", pr[p], " ", "1">>

\* str::rfind(')'): 0-based index of the last ')' or -1
RFindParen(s) ==
    LET hits == {i \in 1 .. Len(s) : s[i] = ")"}
    IN  IF hits = {} THEN -1
        ELSE (CHOOSE i \in hits : \A j \in hits : j <= i) - 1

IsPidAlive_IgnoresZombie(pr, p) == StatFile(pr, p) # <<>>

\* is_pid_alive
IsPidAlive(pr, p) ==
    LET contents == StatFile(pr, p)
        state_start == RFindParen(contents)
    IN  IF contents = <<>> THEN FALSE
        ELSE IF state_start >= 0 /\ state_start + 3 <= Len(contents)
             THEN contents[state_start + 3] # "Z"
             ELSE TRUE

\* ------------------------------------------------------------ bus queries
\* check_dbus_responsive: session connection, list_names, any name with the prefix
CheckDbusResponsive(ob, bu) == bu /\ ob # {}

\* pgrep -x spotifyd: every process table entry of that name, ascending
RECURSIVE SortedSeq(_)
SortedSeq(S) ==
    IF S = {} THEN <<>>
    ELSE LET m == CHOOSE x \in S : \A y \in S : x <= y
         IN  <<m>> \o SortedSeq(S \ {m})

\* find_all_spotifyd_pids
FindAllSpotifydPids(pr) == SortedSeq({p \in Pids : pr[p] # "none"})

\* find_spotifyd_via_pgrep: the first line of the pgrep output
FindSpotifydViaPgrep(pr) ==
    IF FindAllSpotifydPids(pr) = <<>> THEN None ELSE Head(FindAllSpotifydPids(pr))

\* ================================================= controller: data types
\* ------------------------------------------------------ program constants
\* broadcast::channel(16)
ChannelCapacity == 16
\* connect_with_retry(3, 1000)
MaxRetries == 3
InitialDelayMs == 1000
\* play_pause, refresh_state, listeners: status == "Playing"
Playing == "Playing"
\* prefix looked for by SupervisorInner::check_dbus_responsive
HealthPrefix == "org.mpris.MediaPlayer2.spotifyd"

\* ------------------------------------------------------------------ bounds
\* bits of a machine integer (i64 in the code), kept small enough to compute
IntBits == 24
\* calls and listener events begun under CtlSpec and under ChanSpec
MaxCtlOps == 3
MaxChanOps == 18
\* consumers registered with on_state_change
MaxCtlConsumers == 1
MaxConsumers == 2
\* successful connects, each starting one pair of listeners
MaxListenerPairs == 1

Consumers == 1 .. MaxConsumers

\* ----------------------------------------------------------------- Option
\* Option<T> and the Ok side of Result<T, E>: None (or Err) is the empty
\* sequence, Some(x) the sequence holding x alone
NoneOpt == <<>>
Some(x) == <<x>>
IsSome(o) == Len(o) > 0
UnwrapOr(o, d) == IF IsSome(o) THEN o[1] ELSE d
AndThen(o, F(_)) == IF IsSome(o) THEN F(o[1]) ELSE NoneOpt
MapOpt(o, F(_)) == IF IsSome(o) THEN Some(F(o[1])) ELSE NoneOpt

\* --------------------------------------------------------------- integers
\* a value of the integer type after wrap-around
WrapInt(x) == ((x + 2 ^ (IntBits - 1)) % (2 ^ IntBits)) - 2 ^ (IntBits - 1)
\* the value fits the integer type
FitsInt(x) == -(2 ^ (IntBits - 1)) <= x /\ x < 2 ^ (IntBits - 1)
\* integer division as Rust's /: the quotient is truncated toward zero
TruncDiv(a, b) == IF a >= 0 THEN a \div b ELSE -((-a) \div b)

\* ------------------------------------------------------------------ types
\* RepeatMode
RepeatMode == {"None", "Playlist", "Track"}

\* TrackInfo (art_url is an Option)
TrackInfo(title, artist, album, art_url, uri) ==
    [title |-> title, artist |-> artist, album |-> album,
     art_url |-> art_url, uri |-> uri]

\* PlaybackState; volume is counted in hundredths (1.0 is 100); track is an Option
PlaybackState(is_playing, position_ms, duration_ms, volume, shuffle, repeat, track) ==
    [is_playing |-> is_playing, position_ms |-> position_ms,
     duration_ms |-> duration_ms, volume |-> volume, shuffle |-> shuffle,
     repeat |-> repeat, track |-> track]

\* PlaybackState::default()
DefaultPlaybackState == PlaybackState(FALSE, 0, 0, 0, FALSE, "None", NoneOpt)

\* ------------------------------------------------------------- bus values
\* zvariant values by type: string, signed and unsigned 64-bit integer,
\* object path, array.  NoEntry marks a key that a mapping does not hold.
Str(s) == [t |-> "s", s |-> s, i |-> 0, a |-> <<>>]
I64(i) == [t |-> "x", s |-> "", i |-> i, a |-> <<>>]
U64(i) == [t |-> "t", s |-> "", i |-> i, a |-> <<>>]
ObjectPath(s) == [t |-> "o", s |-> s, i |-> 0, a |-> <<>>]
Array(items) == [t |-> "a", s |-> "", i |-> 0, a |-> items]
NoEntry == [t |-> "-", s |-> "", i |-> 0, a |-> <<>>]

\* v.downcast_ref::<T>().ok()
DowncastStr(v) == IF v.t = "s" THEN Some(v.s) ELSE NoneOpt
DowncastArray(v) == IF v.t = "a" THEN Some(v.a) ELSE NoneOpt
DowncastObjectPath(v) == IF v.t = "o" THEN Some(v.s) ELSE NoneOpt
DowncastI64(v) == IF v.t = "x" THEN Some(v.i) ELSE NoneOpt

\* HashMap<String, OwnedValue> with the keys the code looks up
MapEntry(k, v) == IF v = NoEntry THEN <<>> ELSE k :> v
Metadata(title, artist, album, artUrl, trackid, length) ==
    MapEntry("xesam:title", title) @@ MapEntry("xesam:artist", artist)
        @@ MapEntry("xesam:album", album) @@ MapEntry("mpris:artUrl", artUrl)
        @@ MapEntry("mpris:trackid", trackid) @@ MapEntry("mpris:length", length)

\* HashMap::default()
EmptyMetadata == Metadata(NoEntry, NoEntry, NoEntry, NoEntry, NoEntry, NoEntry)

\* metadata.get(key)
Get(metadata, key) ==
    IF key \in DOMAIN metadata THEN Some(metadata[key]) ELSE NoneOpt

\* metadata.is_empty()
IsEmpty(metadata) == DOMAIN metadata = {}

\* ------------------------------------------------------- metadata parsing
\* arr.iter().next().and_then(|item| item.downcast_ref::<Str>().ok())
FirstStr(arr) == IF Len(arr) = 0 THEN NoneOpt ELSE DowncastStr(arr[1])

ParseMetadata_TitleOptional(metadata) ==
    Some(TrackInfo(
        UnwrapOr(AndThen(Get(metadata, "xesam:title"), DowncastStr), ""),
        UnwrapOr(AndThen(AndThen(Get(metadata, "xesam:artist"), DowncastArray),
                         FirstStr), ""),
        UnwrapOr(AndThen(Get(metadata, "xesam:album"), DowncastStr), ""),
        AndThen(Get(metadata, "mpris:artUrl"), DowncastStr),
        UnwrapOr(AndThen(Get(metadata, "mpris:trackid"), DowncastObjectPath), "")))

\* parse_metadata
ParseMetadata(metadata) ==
    LET title == AndThen(Get(metadata, "xesam:title"), DowncastStr)
        artist == UnwrapOr(AndThen(AndThen(Get(metadata, "xesam:artist"),
                                           DowncastArray), FirstStr), "")
        album == UnwrapOr(AndThen(Get(metadata, "xesam:album"), DowncastStr), "")
        art_url == AndThen(Get(metadata, "mpris:artUrl"), DowncastStr)
        uri == UnwrapOr(AndThen(Get(metadata, "mpris:trackid"),
                                DowncastObjectPath), "")
    IN  IF ~IsSome(title) THEN NoneOpt
        ELSE Some(TrackInfo(title[1], artist, album, art_url, uri))

\* extract_duration
ExtractDuration(metadata) == AndThen(Get(metadata, "mpris:length"), DowncastI64)

\* parse_metadata_static and extract_duration_static: the same bodies
ParseMetadataStatic(metadata) == ParseMetadata(metadata)
ExtractDurationStatic(metadata) == ExtractDuration(metadata)

\* |d| d / 1000
Millis(d) == TruncDiv(d, 1000)

\* refresh_state: track and duration_ms from the metadata it read
RefreshTrack(metadata) == ParseMetadata(metadata)
RefreshDuration(metadata) == TruncDiv(UnwrapOr(ExtractDuration(metadata), 0), 1000)

\* metadata listener: track and duration_ms from the changed metadata
ListenerTrack(metadata) ==
    IF ~IsEmpty(metadata) THEN ParseMetadataStatic(metadata) ELSE NoneOpt
ListenerDuration(metadata) ==
    UnwrapOr(MapOpt(ExtractDurationStatic(metadata), Millis), 0)

\* refresh_state: the match on loop_status
RepeatOf(loop_status) ==
    CASE loop_status = "Playlist" -> "Playlist"
      [] loop_status = "Track" -> "Track"
      [] OTHER -> "None"

\* set_repeat: the match on repeat
LoopStatusOf(repeat) ==
    CASE repeat = "None" -> "None"
      [] repeat = "Playlist" -> "Playlist"
      [] repeat = "Track" -> "Track"

\* refresh_state: the snapshot built from the six reads, each an Option that
\* is None when the read failed
RefreshSnapshot(playback_status, metadata, volume, shuffle, loop_status, position) ==
    PlaybackState(UnwrapOr(playback_status, "") = Playing,
                  TruncDiv(UnwrapOr(position, 0), 1000),
                  RefreshDuration(UnwrapOr(metadata, EmptyMetadata)),
                  UnwrapOr(volume, 100),
                  UnwrapOr(shuffle, FALSE),
                  RepeatOf(UnwrapOr(loop_status, "")),
                  RefreshTrack(UnwrapOr(metadata, EmptyMetadata)))

\* --------------------------------------------------------------- bus names
\* str::starts_with
StartsWith(s, prefix) == Len(s) >= Len(prefix) /\ SubSeq(s, 1, Len(prefix)) = prefix

\* names a session bus may list: a spotifyd instance, the Spotify desktop
\* client and another MPRIS player
BusNames ==
    {"org.mpris.MediaPlayer2.spotifyd.instance4242",
     "org.mpris.MediaPlayer2.spotify",
     "org.mpris.MediaPlayer2.vlc"}

\* discover_player: the test applied to each listed name
IsPlayerName(name) ==
    \/ StartsWith(name, "org.mpris.MediaPlayer2.spotifyd")
    \/ StartsWith(name, "org.mpris.MediaPlayer2.spotify")

\* Option<PlayerProxy>::None
NoPlayer == ""

\* player.as_ref().ok_or(MprisError::NotConnected) succeeds
IsConnected_Always(pl) == TRUE

IsConnected(pl) == pl # NoPlayer

\* ------------------------------------------------- values the daemon gives
\* answers to the property reads (a failed read is NoneOpt)
SongMetadata ==
    Metadata(Str("Song A"), Array(<<Str("Artist B")>>), NoEntry, NoEntry,
             NoEntry, I64(3000000))
StatusReads == {Some("Playing"), Some("Paused"), NoneOpt}
MetadataReads == {Some(SongMetadata), NoneOpt}
VolumeReads == {Some(50), NoneOpt}
ShuffleReads == {Some(TRUE), NoneOpt}
LoopStatusReads == {Some("Track"), NoneOpt}
PositionReads == {Some(1500999), NoneOpt}

\* arguments of the calls
SeekOffsets == {-9000, -2000, 0, 2000, 9000}
VolumeArgs == {50}
RepeatArgs == RepeatMode

\* ------------------------------------------------------ controller records
\* a protocol call or property access made on the proxy
Call(method, i, b, s) == [method |-> method, i |-> i, b |-> b, s |-> s]

\* Result of a call: Ok (with the bool of play_pause) or the error's variant
Ok(b) == [ok |-> TRUE, err |-> "", val |-> b]
Err(e) == [ok |-> FALSE, err |-> e, val |-> FALSE]
Pending == [ok |-> FALSE, err |-> "pending", val |-> FALSE]

IdleCall ==
    [pc |-> "idle", op |-> "none",
     offset_ms |-> 0, volume |-> 0, shuffle |-> FALSE, repeat |-> "None",
     status |-> "", new_state |-> DefaultPlaybackState, failed |-> {},
     rret |-> "none",
     attempt |-> 0, tries |-> 0, delays |-> <<>>, errs |-> <<>>,
     last_error |-> NoneOpt, names |-> {}, service_name |-> NoPlayer,
     calls |-> <<>>, sends |-> 0, sent |-> NoneOpt, result |-> Pending,
     e_state |-> DefaultPlaybackState, e_tail |-> 0, e_player |-> NoPlayer,
     e_receiving |-> {}]

IdleEvent ==
    [pc |-> "idle", kind |-> "none", status |-> "", metadata |-> EmptyMetadata,
     updated_state |-> DefaultPlaybackState, left |-> 0]

NoConsumer ==
    [pc |-> "none", since |-> 0, next |-> 0, last |-> 0,
     fresh |-> TRUE, inorder |-> TRUE, lagged |-> FALSE]

NoParse ==
    [pc |-> "off", input |-> EmptyMetadata, path |-> "none",
     track |-> NoneOpt, duration_ms |-> 0]

\* the spawn of start_fresh taken alone, before it is looked at: config_path,
\* SPOTIFY_TUI_SPOTIFYD_PATH and HOME, the files that exist, the position of
\* the caller (pc), of the first child and of the grandchild, the hand-off
\* file /tmp/spotifyd-<pid>.pid (absent, or its characters), and the locals;
\* history only: the files that existed at the call (given), every pid
\* stored in spawned_child_pid (tracked), the removal of the hand-off file
NoSpawn ==
    [pc |-> "off", config_path |-> NoneOpt, env_path |-> NoneOpt, home |-> NoneOpt,
     files |-> {}, given |-> {}, binary_path |-> "", pid |-> 0, first |-> "none",
     pid2 |-> 0, grand |-> "none", pid_file |-> NoneOpt,
     grandchild_pid |-> NoneOpt, child_pid |-> 0, err |-> "",
     tracked |-> {}, removed |-> FALSE]

\* the snapshot lock and its tasks, before they are looked at
NoListen ==
    [holder |-> "off", task |-> <<>>, begun |-> 0, history |-> {}, seen |-> NoneOpt]

\* ControllerInner::new
ControllerNew ==
    /\ connection = FALSE
    /\ player = NoPlayer
    /\ state = DefaultPlaybackState
    /\ state_tx = [tail |-> 0, last |-> NoneOpt]
    /\ rx = [c \in Consumers |-> NoConsumer]
    /\ listeners = 0
    /\ ct = IdleCall
    /\ lt = IdleEvent
    /\ ops = 0

\* ------------------------------------------------------------ task records
IdleTask ==
    [pc |-> "idle", op |-> "none", force |-> FALSE,
     pid |-> None, found |-> None, names |-> {}, list |-> <<>>,
     kpid |-> None, kret |-> "none", polls |-> 0, klast |-> "none",
     kres |-> FALSE, ktermed |-> FALSE, kkilled |-> FALSE,
     child |-> None, attempt |-> 0,
     result |-> NoResult, ret |-> FALSE,
     sent |-> {}, forks |-> {}, scans |-> <<>>, kills |-> <<>>,
     e_spawned |-> None, e_adopted |-> None, e_status |-> DefaultStatus,
     e_nodaemon |-> FALSE, healthy |-> FALSE, quiet |-> FALSE,
     settled |-> FALSE, exited |-> FALSE]

L(t) == tk[t]
Set(t, r) == tk' = [tk EXCEPT ![t] = r] /\ ControllerIdle

Init ==
    /\ procs \in [Pids -> {"none", "S", "Z"}]
    /\ onBus \in SUBSET {p \in Pids : procs[p] = "S"}
    /\ busUp \in BOOLEAN
    /\ envSteps = 0
    /\ spawned_child_pid = None
    /\ adopted_pid = None
    /\ status = DefaultStatus
    /\ receivers = FALSE
    /\ start_lock = None
    /\ tk = [t \in Tasks |-> IdleTask]
    /\ ControllerNew
    /\ md = NoParse /\ sw = NoSpawn /\ lsn = NoListen

\* get_tracked_pid, evaluated on given field values
TrackedPid(sp, ad) == IF sp # None THEN sp ELSE ad

\* History only: pid p is tracked, a running process, and a name with the
\* prefix is on a reachable bus
HealthyIn(pr, ob, bu, p) == p # None /\ pr[p] = "S" /\ bu /\ ob # {}

\* watch::Sender::send(v).ok(): with no receiver alive the send fails and the
\* stored value stays as it was
SendStatus(cur, rc, v) == IF rc THEN v ELSE cur

\* libc::kill(pid, sig) == 0
KillSucceeds(pr, p) == pr[p] # "none"

\* --------------------------------------------------------------- environment
\* Between an operation's last instruction and the retirement of its task the
\* environment stays as it is, so a state with pc = "done" shows the
\* environment the operation returned in.
EnvChange(pr, ob, bu, counted) ==
    /\ \A t \in Tasks : tk[t].pc \notin {"ret", "done"}
    /\ procs' = pr
    /\ onBus' = ob
    /\ busUp' = bu
    /\ envSteps' = IF counted THEN envSteps + 1 ELSE envSteps
    /\ tk' = [t \in Tasks |->
                [tk[t] EXCEPT
                   !.healthy = @ /\ HealthyIn(pr, ob, bu,
                                    TrackedPid(tk[t].e_spawned, tk[t].e_adopted)),
                   !.quiet = FALSE,
                   !.exited = @ \/ (tk[t].settled /\ tk[t].child # None
                                     /\ ~IsPidAlive(pr, tk[t].child))]]
    /\ UNCHANGED sup
    /\ ControllerIdle

\* a process exits: it becomes a zombie, or is reaped at once (parent is init)
ProcExit(p, counted) ==
    /\ procs[p] = "S"
    /\ \E z \in {"Z", "none"} :
          EnvChange([procs EXCEPT ![p] = z], onBus \ {p}, busUp, counted)

\* the parent of a zombie reaps it
ProcReap(p, counted) ==
    /\ procs[p] = "Z"
    /\ EnvChange([procs EXCEPT ![p] = "none"], onBus, busUp, counted)

\* a running daemon registers its well-known name on the bus
BusRegister(p, counted) ==
    /\ procs[p] = "S"
    /\ p \notin onBus
    /\ EnvChange(procs, onBus \cup {p}, busUp, counted)

\* a running daemon drops its name
BusUnregister(p, counted) ==
    /\ p \in onBus
    /\ EnvChange(procs, onBus \ {p}, busUp, counted)

\* the session bus becomes unreachable, or reachable again
BusToggle(counted) == EnvChange(procs, onBus, ~busUp, counted)

EnvStep(counted) ==
    \/ \E p \in Pids : ProcExit(p, counted)
    \/ \E p \in Pids : ProcReap(p, counted)
    \/ \E p \in Pids : BusRegister(p, counted)
    \/ \E p \in Pids : BusUnregister(p, counted)
    \/ BusToggle(counted)

\* ------------------------------------------------------------ entry points
Ops == {"start_or_adopt", "stop", "is_alive", "is_healthy"}

EntryPc(op) == IF op = "start_or_adopt" THEN "s_lock" ELSE "gt_spawned"

\* the field values an operation starts from
Entry(r) ==
    [r EXCEPT !.e_spawned = spawned_child_pid, !.e_adopted = adopted_pid,
              !.e_status = status,
              !.quiet = TRUE,
              !.e_nodaemon = \A p \in Pids : procs[p] # "S",
              !.healthy = r.op = "start_or_adopt"
                          /\ HealthyIn(procs, onBus, busUp,
                                       TrackedPid(spawned_child_pid, adopted_pid))]

\* lib.rs: a call spawns a task running the operation; solo = no other
\* operation is in progress
Begin(t, solo) ==
    /\ L(t).pc = "idle"
    /\ \A d \in Tasks : d < t => tk[d].pc # "idle"
    /\ solo => \A d \in Tasks \ {t} : tk[d].pc \in {"idle", "retired"}
    /\ \E op \in Ops, force \in BOOLEAN :
          /\ force => op = "stop"
          /\ LET r == [IdleTask EXCEPT !.pc = EntryPc(op), !.op = op, !.force = force]
             IN  Set(t, IF op = "start_or_adopt" THEN r ELSE Entry(r))
    /\ UNCHANGED <<env, sup>>

\* the caller has consumed the result; the task is gone
Retire(t) ==
    /\ L(t).pc = "done"
    /\ Set(t, [IdleTask EXCEPT !.pc = "retired"])
    /\ UNCHANGED <<env, sup>>

Return_KeepsLock(t) ==
    /\ L(t).pc = "ret"
    /\ Set(t, [L(t) EXCEPT !.pc = "done"])
    /\ UNCHANGED <<env, sup>>

\* the function returns; dropping _guard releases start_lock
Return(t) ==
    /\ L(t).pc = "ret"
    /\ start_lock' = IF start_lock = t THEN None ELSE start_lock
    /\ Set(t, [L(t) EXCEPT !.pc = "done"])
    /\ UNCHANGED <<env, spawned_child_pid, adopted_pid, status, receivers>>

\* on_status_change: the spawned task calls subscribe_status and keeps the receiver
Subscribe ==
    /\ ~receivers
    /\ receivers' = TRUE
    /\ UNCHANGED <<env, spawned_child_pid, adopted_pid, status, start_lock, tk>>
    /\ ControllerIdle

\* ---------------------------------------------------------- get_tracked_pid
AfterTracked(op) ==
    CASE op = "start_or_adopt" -> "s_tracked"
      [] op = "stop" -> "st_tracked"
      [] OTHER -> "ia_check"

GetTrackedSpawned(t) ==
    /\ L(t).pc = "gt_spawned"
    /\ IF spawned_child_pid # None
       THEN Set(t, [L(t) EXCEPT !.pid = spawned_child_pid, !.pc = AfterTracked(L(t).op)])
       ELSE Set(t, [L(t) EXCEPT !.pc = "gt_adopted"])
    /\ UNCHANGED <<env, sup>>

GetTrackedAdopted(t) ==
    /\ L(t).pc = "gt_adopted"
    /\ Set(t, [L(t) EXCEPT !.pid = adopted_pid, !.pc = AfterTracked(L(t).op)])
    /\ UNCHANGED <<env, sup>>

\* ------------------------------------------------------ is_alive, is_healthy
IsAliveCheck(t) ==
    /\ L(t).pc = "ia_check"
    /\ LET alive == L(t).pid # None /\ IsPidAlive(procs, L(t).pid)
       IN  IF L(t).op = "is_healthy" /\ alive
           THEN Set(t, [L(t) EXCEPT !.pc = "ih_bus"])
           ELSE Set(t, [L(t) EXCEPT !.ret = alive, !.pc = "ret"])
    /\ UNCHANGED <<env, sup>>

IsHealthyBus(t) ==
    /\ L(t).pc = "ih_bus"
    /\ Set(t, [L(t) EXCEPT !.ret = CheckDbusResponsive(onBus, busUp), !.pc = "ret"])
    /\ UNCHANGED <<env, sup>>

\* ---------------------------------------------------- find_existing_spotifyd
AfterFound(op) == IF op = "start_or_adopt" THEN "s_found" ELSE "st_found"

\* find_spotifyd_via_dbus: connection and list_names
FindDbusList(t) ==
    /\ L(t).pc = "fd_list"
    /\ IF busUp
       THEN Set(t, [L(t) EXCEPT !.names = onBus, !.pc = "fd_owner"])
       ELSE Set(t, [L(t) EXCEPT !.pc = "fd_pgrep"])
    /\ UNCHANGED <<env, sup>>

\* find_spotifyd_via_dbus: owner lookup of the next listed name
FindDbusOwner(t) ==
    /\ L(t).pc = "fd_owner"
    /\ IF L(t).names = {}
       THEN Set(t, [L(t) EXCEPT !.pc = "fd_pgrep"])
       ELSE \E n \in L(t).names :
               IF busUp /\ n \in onBus
               THEN Set(t, [L(t) EXCEPT !.found = n, !.names = {},
                                        !.pc = AfterFound(L(t).op)])
               ELSE Set(t, [L(t) EXCEPT !.names = @ \ {n}])
    /\ UNCHANGED <<env, sup>>

FindPgrep(t) ==
    /\ L(t).pc = "fd_pgrep"
    /\ Set(t, [L(t) EXCEPT !.found = FindSpotifydViaPgrep(procs),
                           !.pc = AfterFound(L(t).op)])
    /\ UNCHANGED <<env, sup>>

\* ------------------------------------------------------------------ kill_pid
CallKill(r, p, back) ==
    [r EXCEPT !.kpid = p, !.kret = back, !.polls = 0, !.klast = "none",
              !.kres = FALSE, !.ktermed = FALSE, !.kkilled = FALSE,
              !.kills = Append(@, p), !.pc = "k_term"]

KillTerm(t) ==
    /\ L(t).pc = "k_term"
    /\ LET r == [L(t) EXCEPT !.sent = @ \cup {<<L(t).kpid, "TERM">>}, !.ktermed = TRUE]
       IN  IF KillSucceeds(procs, L(t).kpid)
           THEN Set(t, [r EXCEPT !.pc = "k_poll"])
           ELSE Set(t, [r EXCEPT !.kres = FALSE, !.pc = "k_ret"])
    /\ UNCHANGED <<env, sup>>

PollLimit_OneShort == GracePolls - 1

PollLimit == GracePolls

\* One pass of for _ in 0..20 { sleep(100ms); if !is_pid_alive(pid) { return true } }.
\* With fine = FALSE the polls that still find the process alive are taken as
\* one step (they only read the process table).
KillPoll(t, fine) ==
    /\ L(t).pc = "k_poll"
    /\ IF ~IsPidAlive(procs, L(t).kpid)
       THEN Set(t, [L(t) EXCEPT !.klast = "gone", !.kres = TRUE, !.pc = "k_ret"])
       ELSE LET n == IF fine THEN L(t).polls + 1 ELSE PollLimit
            IN  Set(t, [L(t) EXCEPT !.klast = "alive", !.polls = n,
                                    !.pc = IF n >= PollLimit THEN "k_kill" ELSE "k_poll"])
    /\ UNCHANGED <<env, sup>>

KillKill(t) ==
    /\ L(t).pc = "k_kill"
    /\ LET r == [L(t) EXCEPT !.sent = @ \cup {<<L(t).kpid, "KILL">>}, !.kkilled = TRUE]
       IN  IF KillSucceeds(procs, L(t).kpid)
           THEN Set(t, [r EXCEPT !.pc = "k_final"])
           ELSE Set(t, [r EXCEPT !.kres = FALSE, !.pc = "k_ret"])
    /\ UNCHANGED <<env, sup>>

KillFinal(t) ==
    /\ L(t).pc = "k_final"
    /\ LET alive == IsPidAlive(procs, L(t).kpid)
       IN  Set(t, [L(t) EXCEPT !.klast = IF alive THEN "alive" ELSE "gone",
                               !.kres = ~alive, !.pc = "k_ret"])
    /\ UNCHANGED <<env, sup>>

\* kill_pid returns; every caller drops the result
KillReturn(t) ==
    /\ L(t).pc = "k_ret"
    /\ Set(t, [L(t) EXCEPT !.pc = L(t).kret, !.kpid = None, !.kret = "none",
                           !.polls = 0, !.klast = "none", !.kres = FALSE,
                           !.ktermed = FALSE, !.kkilled = FALSE])
    /\ UNCHANGED <<env, sup>>

StartLock_NoWait(t) ==
    /\ L(t).pc = "s_lock"
    /\ start_lock' = t
    /\ Set(t, Entry([L(t) EXCEPT !.pc = "gt_spawned"]))
    /\ UNCHANGED <<env, spawned_child_pid, adopted_pid, status, receivers>>

\* ----------------------------------------------------------- start_or_adopt
\* let _guard = self.start_lock.lock().await
StartLock(t) ==
    /\ L(t).pc = "s_lock"
    /\ start_lock = None
    /\ start_lock' = t
    /\ Set(t, Entry([L(t) EXCEPT !.pc = "gt_spawned"]))
    /\ UNCHANGED <<env, spawned_child_pid, adopted_pid, status, receivers>>

\* if let Some(pid) = get_tracked_pid() { if is_pid_alive(pid) && ...
StartCheckTracked(t) ==
    /\ L(t).pc = "s_tracked"
    /\ Set(t, [L(t) EXCEPT !.pc =
                 IF L(t).pid = None THEN "fd_list"
                 ELSE IF IsPidAlive(procs, L(t).pid) THEN "s_tracked_bus"
                 ELSE "s_stale_spawned"])
    /\ UNCHANGED <<env, sup>>

FastResult_NotAdopted(pid) == SpotifydStartResult(TRUE, "already", pid, FALSE)

\* Ok(SpotifydStartResult { success: true, "Spotifyd already running", pid, adopted: true })
FastResult(pid) == SpotifydStartResult(TRUE, "already", pid, TRUE)

FastPath_Adopts(t) ==
    /\ spawned_child_pid' = None
    /\ adopted_pid' = L(t).pid
    /\ Set(t, [L(t) EXCEPT !.result = FastResult(L(t).pid), !.pc = "ret"])

\* the fast path: nothing but the return value
FastPath(t) ==
    /\ UNCHANGED <<spawned_child_pid, adopted_pid>>
    /\ Set(t, [L(t) EXCEPT !.result = FastResult(L(t).pid), !.pc = "ret"])

\* ... && self.check_dbus_responsive().await { return Ok(already running) }
StartCheckTrackedBus(t) ==
    /\ L(t).pc = "s_tracked_bus"
    /\ IF CheckDbusResponsive(onBus, busUp)
       THEN FastPath(t)
       ELSE /\ Set(t, [L(t) EXCEPT !.pc = "s_stale_spawned"])
            /\ UNCHANGED <<spawned_child_pid, adopted_pid>>
    /\ UNCHANGED <<env, status, receivers, start_lock>>

\* the tracked process is dead or unhealthy: *spawned_child_pid = None
StaleClearSpawned(t) ==
    /\ L(t).pc = "s_stale_spawned"
    /\ spawned_child_pid' = None
    /\ Set(t, [L(t) EXCEPT !.pc = "s_stale_adopted"])
    /\ UNCHANGED <<env, adopted_pid, status, receivers, start_lock>>

StaleAdopted_Kept(ad) == ad

\* the value the stale branch leaves in adopted_pid
StaleAdopted(ad) == None

\* *adopted_pid = None
StaleClearAdopted(t) ==
    /\ L(t).pc = "s_stale_adopted"
    /\ adopted_pid' = StaleAdopted(adopted_pid)
    /\ Set(t, [L(t) EXCEPT !.pc = "fd_list"])
    /\ UNCHANGED <<env, spawned_child_pid, status, receivers, start_lock>>

\* if let Some(pid) = find_existing_spotifyd() { if is_pid_alive(pid) && ...
StartCheckFound(t) ==
    /\ L(t).pc = "s_found"
    /\ Set(t, [L(t) EXCEPT !.pc =
                 IF L(t).found # None /\ IsPidAlive(procs, L(t).found)
                 THEN "s_found_bus" ELSE "ka_scan"])
    /\ UNCHANGED <<env, sup>>

\* ... && self.check_dbus_responsive().await { self.adopt(pid) ...
StartCheckFoundBus(t) ==
    /\ L(t).pc = "s_found_bus"
    /\ Set(t, [L(t) EXCEPT !.pc =
                 IF CheckDbusResponsive(onBus, busUp) THEN "a_clear_spawned"
                 ELSE "ka_scan"])
    /\ UNCHANGED <<env, sup>>

\* -------------------------------------------------------------------- adopt
AdoptClearSpawned(t) ==
    /\ L(t).pc = "a_clear_spawned"
    /\ spawned_child_pid' = None
    /\ Set(t, [L(t) EXCEPT !.pc = "a_set_adopted"])
    /\ UNCHANGED <<env, adopted_pid, status, receivers, start_lock>>

AdoptSetAdopted(t) ==
    /\ L(t).pc = "a_set_adopted"
    /\ adopted_pid' = L(t).found
    /\ Set(t, [L(t) EXCEPT !.pc = "a_send"])
    /\ UNCHANGED <<env, spawned_child_pid, status, receivers, start_lock>>

\* status_tx.send(running, pid, authenticated).ok(); Ok(()); then the caller's
\* Ok(SpotifydStartResult { adopted: true })
AdoptSend(t) ==
    /\ L(t).pc = "a_send"
    /\ status' = SendStatus(status, receivers, SpotifydStatus(TRUE, L(t).found, TRUE))
    /\ Set(t, [L(t) EXCEPT !.result = SpotifydStartResult(TRUE, "adopted", L(t).found, TRUE),
                           !.pc = "ret"])
    /\ UNCHANGED <<env, spawned_child_pid, adopted_pid, receivers, start_lock>>

\* -------------------------------- kill_all_spotifyd and the second kill pass
KillAllScan(t) ==
    /\ L(t).pc = "ka_scan"
    /\ Set(t, [L(t) EXCEPT !.list = FindAllSpotifydPids(procs),
                           !.scans = Append(@, FindAllSpotifydPids(procs)),
                           !.pc = "ka_loop"])
    /\ UNCHANGED <<env, sup>>

KillAllLoop(t) ==
    /\ L(t).pc = "ka_loop"
    /\ IF L(t).list = <<>>
       THEN Set(t, [L(t) EXCEPT !.pc = "rs_scan"])
       ELSE Set(t, CallKill([L(t) EXCEPT !.list = Tail(@)], Head(L(t).list), "ka_loop"))
    /\ UNCHANGED <<env, sup>>

\* let remaining = find_all_spotifyd_pids().await
RescanScan(t) ==
    /\ L(t).pc = "rs_scan"
    /\ Set(t, [L(t) EXCEPT !.list = FindAllSpotifydPids(procs),
                           !.scans = Append(@, FindAllSpotifydPids(procs)),
                           !.pc = "rs_loop"])
    /\ UNCHANGED <<env, sup>>

RescanLoop_SkipsKill(t) ==
    /\ L(t).pc = "rs_loop"
    /\ Set(t, [L(t) EXCEPT !.pc = "f_fork"])
    /\ UNCHANGED <<env, sup>>

\* for pid in remaining { kill_pid(pid).await }
RescanLoop(t) ==
    /\ L(t).pc = "rs_loop"
    /\ IF L(t).list = <<>>
       THEN Set(t, [L(t) EXCEPT !.pc = "f_fork"])
       ELSE Set(t, CallKill([L(t) EXCEPT !.list = Tail(@)], Head(L(t).list), "rs_loop"))
    /\ UNCHANGED <<env, sup>>

\* -------------------------------------------------------------- start_fresh
\* the double fork: Err(ProcessSpawn), or the pid of the new daemon; the
\* history of the kill passes is kept up to here
FreshFork(t) ==
    /\ L(t).pc = "f_fork"
    /\ \/ /\ Set(t, [L(t) EXCEPT !.result = SpotifydStartResult(FALSE, "failed", None, FALSE),
                                 !.scans = <<>>, !.kills = <<>>, !.pc = "ret"])
          /\ UNCHANGED procs
       \/ \E p \in Pids :
             /\ procs[p] = "none"
             /\ procs' = [procs EXCEPT ![p] = "S"]
             /\ Set(t, [L(t) EXCEPT !.child = p, !.forks = @ \cup {p},
                                    !.scans = <<>>, !.kills = <<>>, !.pc = "f_store"])
    /\ UNCHANGED <<onBus, busUp, envSteps, sup>>

\* *self.spawned_child_pid.write().await = Some(child_pid)
FreshStoreSpawned(t) ==
    /\ L(t).pc = "f_store"
    /\ spawned_child_pid' = L(t).child
    /\ Set(t, [L(t) EXCEPT !.pc = "f_clear_adopted"])
    /\ UNCHANGED <<env, adopted_pid, status, receivers, start_lock>>

\* *self.adopted_pid.write().await = None
FreshClearAdopted(t) ==
    /\ L(t).pc = "f_clear_adopted"
    /\ adopted_pid' = None
    /\ Set(t, [L(t) EXCEPT !.pc = "f_settle"])
    /\ UNCHANGED <<env, spawned_child_pid, status, receivers, start_lock>>

SettleAlive_Unchecked(pr, p) == TRUE

\* after the settle delay: is_pid_alive(child_pid)
SettleAlive(pr, p) == IsPidAlive(pr, p)

FreshSettleCheck(t) ==
    /\ L(t).pc = "f_settle"
    /\ IF SettleAlive(procs, L(t).child)
       THEN Set(t, [L(t) EXCEPT !.settled = procs[L(t).child] = "S", !.pc = "f_send"])
       ELSE Set(t, [L(t) EXCEPT !.pc = "f_rollback"])
    /\ UNCHANGED <<env, sup>>

FreshRollback_KeepsTracked(t) ==
    /\ L(t).pc = "f_rollback"
    /\ Set(t, [L(t) EXCEPT !.result = SpotifydStartResult(FALSE, "failed", None, FALSE),
                           !.pc = "ret"])
    /\ UNCHANGED <<env, sup>>

\* *self.spawned_child_pid.write().await = None; return Err(exited immediately)
FreshRollback(t) ==
    /\ L(t).pc = "f_rollback"
    /\ spawned_child_pid' = None
    /\ Set(t, [L(t) EXCEPT !.result = SpotifydStartResult(FALSE, "failed", None, FALSE),
                           !.pc = "ret"])
    /\ UNCHANGED <<env, adopted_pid, status, receivers, start_lock>>

FreshSend(t) ==
    /\ L(t).pc = "f_send"
    /\ status' = SendStatus(status, receivers, SpotifydStatus(TRUE, L(t).child, TRUE))
    /\ Set(t, [L(t) EXCEPT !.pc = "r_conn"])
    /\ UNCHANGED <<env, spawned_child_pid, adopted_pid, receivers, start_lock>>

\* start_fresh returns Ok(child_pid) whatever the registration wait returned
FreshOk(r) ==
    [r EXCEPT !.result = SpotifydStartResult(TRUE, "fresh", r.child, FALSE),
              !.attempt = 0, !.pc = "ret"]

\* wait_for_dbus_registration: Connection::session()
RegConn(t) ==
    /\ L(t).pc = "r_conn"
    /\ IF busUp
       THEN Set(t, [L(t) EXCEPT !.attempt = 1, !.pc = "r_poll"])
       ELSE Set(t, FreshOk(L(t)))
    /\ UNCHANGED <<env, sup>>

\* wait_for_dbus_registration: one attempt of for attempt in 1..=30
RegPoll(t, fine) ==
    /\ L(t).pc = "r_poll"
    /\ IF ~busUp \/ onBus # {} \/ L(t).attempt >= RegistrationPolls
       THEN Set(t, FreshOk(L(t)))
       ELSE Set(t, [L(t) EXCEPT !.attempt = IF fine THEN @ + 1 ELSE RegistrationPolls])
    /\ UNCHANGED <<env, sup>>

\* --------------------------------------------------------------------- stop
ShouldKill_Always(force, sp) == TRUE

ShouldKill_ForceOnly(force, sp) == force

\* force || self.spawned_child_pid.read().await.is_some()
ShouldKill(force, sp) == force \/ sp # None

\* let pid = get_tracked_pid(); if let Some(pid) .. else if force ..
StopDecide(t) ==
    /\ L(t).pc = "st_tracked"
    /\ Set(t, IF L(t).pid # None
              THEN IF L(t).force
                   THEN CallKill(L(t), L(t).pid, "st_clear_spawned")
                   ELSE [L(t) EXCEPT !.pc = "st_read_spawned"]
              ELSE [L(t) EXCEPT !.pc = IF L(t).force THEN "fd_list"
                                       ELSE "st_clear_spawned"])
    /\ UNCHANGED <<env, sup>>

StopReadSpawned(t) ==
    /\ L(t).pc = "st_read_spawned"
    /\ Set(t, IF ShouldKill(L(t).force, spawned_child_pid)
              THEN CallKill(L(t), L(t).pid, "st_clear_spawned")
              ELSE [L(t) EXCEPT !.pc = "st_clear_spawned"])
    /\ UNCHANGED <<env, sup>>

\* if let Some(pid) = self.find_existing_spotifyd().await { kill_pid(pid) }
StopFound(t) ==
    /\ L(t).pc = "st_found"
    /\ Set(t, IF L(t).found # None
              THEN CallKill(L(t), L(t).found, "st_clear_spawned")
              ELSE [L(t) EXCEPT !.pc = "st_clear_spawned"])
    /\ UNCHANGED <<env, sup>>

StopClearSpawned(t) ==
    /\ L(t).pc = "st_clear_spawned"
    /\ spawned_child_pid' = None
    /\ Set(t, [L(t) EXCEPT !.pc = "st_clear_adopted"])
    /\ UNCHANGED <<env, adopted_pid, status, receivers, start_lock>>

StopAdopted_Kept(ad) == ad

\* the value stop leaves in adopted_pid
StopAdopted(ad) == None

StopClearAdopted(t) ==
    /\ L(t).pc = "st_clear_adopted"
    /\ adopted_pid' = StopAdopted(adopted_pid)
    /\ Set(t, [L(t) EXCEPT !.pc = "st_send"])
    /\ UNCHANGED <<env, spawned_child_pid, status, receivers, start_lock>>

StopSend(t) ==
    /\ L(t).pc = "st_send"
    /\ status' = SendStatus(status, receivers, SpotifydStatus(FALSE, None, FALSE))
    /\ Set(t, [L(t) EXCEPT !.ret = TRUE, !.pc = "ret"])
    /\ UNCHANGED <<env, spawned_child_pid, adopted_pid, receivers, start_lock>>

\* ------------------------------------------------------------ specification
Step(t, fine) ==
    \/ Retire(t) \/ Return(t)
    \/ GetTrackedSpawned(t) \/ GetTrackedAdopted(t)
    \/ IsAliveCheck(t) \/ IsHealthyBus(t)
    \/ FindDbusList(t) \/ FindDbusOwner(t) \/ FindPgrep(t)
    \/ KillTerm(t) \/ KillPoll(t, fine) \/ KillKill(t) \/ KillFinal(t) \/ KillReturn(t)
    \/ StartLock(t) \/ StartCheckTracked(t) \/ StartCheckTrackedBus(t)
    \/ StaleClearSpawned(t) \/ StaleClearAdopted(t)
    \/ StartCheckFound(t) \/ StartCheckFoundBus(t)
    \/ AdoptClearSpawned(t) \/ AdoptSetAdopted(t) \/ AdoptSend(t)
    \/ KillAllScan(t) \/ KillAllLoop(t) \/ RescanScan(t) \/ RescanLoop(t)
    \/ FreshFork(t) \/ FreshStoreSpawned(t) \/ FreshClearAdopted(t)
    \/ FreshSettleCheck(t) \/ FreshRollback(t) \/ FreshSend(t)
    \/ RegConn(t) \/ RegPoll(t, fine)
    \/ StopDecide(t) \/ StopReadSpawned(t) \/ StopFound(t)
    \/ StopClearSpawned(t) \/ StopClearAdopted(t) \/ StopSend(t)

\* Operations may overlap, as the runtime's tasks do.  Here the environment
\* changes at most MaxOverlapEnvSteps times and a polling loop whose polls
\* keep their answer is one step.
Next ==
    \/ \E t \in Tasks : Begin(t, FALSE)
    \/ \E t \in Tasks : Step(t, FALSE)
    \/ Subscribe
    \/ envSteps < MaxOverlapEnvSteps /\ EnvStep(TRUE)

Spec == Init /\ [][Next]_vars

\* One operation at a time: a call begins only when no other is in progress.
\* The environment changes without limit and every poll is a step.
SeqNext ==
    \/ \E t \in Tasks : Begin(t, TRUE)
    \/ \E t \in Tasks : Step(t, TRUE)
    \/ Subscribe
    \/ EnvStep(FALSE)

SeqSpec == Init /\ [][SeqNext]_vars

\* ============================================================= controller
\* consumers whose Receiver is alive
Receiving == {c \in Consumers : rx[c].pc = "recv"}

\* state_tx.send(v): the channel takes the value at position tail when a
\* Receiver is alive; with none the send fails and the value is dropped
SendState(tx, v) ==
    IF Receiving # {} THEN [tail |-> tx.tail + 1, last |-> Some(v)] ELSE tx

\* ------------------------------------------------------------------ calls
CtlOps ==
    {"connect", "play_pause", "next", "previous", "seek", "set_volume",
     "set_shuffle", "set_repeat", "refresh_state"}

NoArgs == [offset_ms |-> 0, volume |-> 0, shuffle |-> FALSE, repeat |-> "None"]

\* argument values tried for each call
Args(op) ==
    CASE op = "seek" -> {[NoArgs EXCEPT !.offset_ms = o] : o \in SeekOffsets}
      [] op = "set_volume" -> {[NoArgs EXCEPT !.volume = v] : v \in VolumeArgs}
      [] op = "set_shuffle" -> {[NoArgs EXCEPT !.shuffle = b] : b \in BOOLEAN}
      [] op = "set_repeat" -> {[NoArgs EXCEPT !.repeat = r] : r \in RepeatArgs}
      [] OTHER -> {NoArgs}

\* where a call goes once it holds the proxy
AfterPlayer(op) ==
    CASE op = "play_pause" -> "pp_call"
      [] op = "next" -> "nx_call"
      [] op = "previous" -> "pv_call"
      [] op = "seek" -> "sk_call"
      [] op = "set_volume" -> "sv_call"
      [] op = "set_shuffle" -> "sh_call"
      [] op = "set_repeat" -> "rp_call"
      [] op = "refresh_state" -> "rf_read"
      [] op = "connect" -> "rf_read"

\* return from the call with result res
Finish(r, res) == [r EXCEPT !.pc = "done", !.result = res]

\* the call made on the proxy is added to the record of the call
WithCall(r, c) == [r EXCEPT !.calls = Append(@, c)]

\* try_connect returned Err(e): connect_with_retry keeps it and goes on
AttemptFailed(r, e) ==
    [r EXCEPT !.errs = Append(@, e), !.last_error = Some(e),
              !.attempt = @ + 1,
              !.pc = IF r.attempt + 1 < MaxRetries THEN "cn_delay" ELSE "cn_exhausted"]

\* lib.rs: a call spawns a task running the operation.  One call or listener
\* event is in progress at a time; cap bounds the calls and events begun.
CtlBegin(cap) ==
    /\ ct.pc = "idle"
    /\ lt.pc = "idle"
    /\ ops < cap
    /\ ops' = ops + 1
    /\ \E op \in CtlOps :
          /\ op = "connect" => listeners < MaxListenerPairs
          /\ \E a \in Args(op) :
                ct' = [IdleCall EXCEPT
                         !.pc = IF op = "connect" THEN "tc_session" ELSE "c_player",
                         !.op = op, !.offset_ms = a.offset_ms, !.volume = a.volume,
                         !.shuffle = a.shuffle, !.repeat = a.repeat,
                         !.e_state = state, !.e_tail = state_tx.tail,
                         !.e_player = player, !.e_receiving = Receiving]
    /\ UNCHANGED <<connection, player, state, state_tx, rx, listeners, lt, md>>
    /\ SupervisorIdle

\* the caller has consumed the result; the task is gone
CtlRetire ==
    /\ ct.pc = "done"
    /\ ct' = IdleCall
    /\ UNCHANGED <<connection, player, state, state_tx, rx, listeners, lt, ops, md>>
    /\ SupervisorIdle

\* let player = self.player.read().await;
\* let player = player.as_ref().ok_or(MprisError::NotConnected)?;
PlayerCheck ==
    /\ ct.pc = "c_player"
    /\ ct' = IF IsConnected(player) THEN [ct EXCEPT !.pc = AfterPlayer(ct.op)]
             ELSE IF ct.op = "connect" THEN AttemptFailed(ct, "NotConnected")
             ELSE Finish(ct, Err("NotConnected"))
    /\ UNCHANGED <<connection, player, state, state_tx, rx, listeners, lt, ops, md>>
    /\ SupervisorIdle

\* ------------------------------------------------------------- play_pause
\* player.play_pause().await?
PlayPauseCall ==
    /\ ct.pc = "pp_call"
    /\ \E ok \in BOOLEAN :
          LET r == WithCall(ct, Call("PlayPause", 0, FALSE, ""))
          IN  ct' = IF ok THEN [r EXCEPT !.pc = "pp_status"] ELSE Finish(r, Err("DBus"))
    /\ UNCHANGED <<connection, player, state, state_tx, rx, listeners, lt, ops, md>>
    /\ SupervisorIdle

\* sleep(50ms); let status = player.playback_status().await?
PlayPauseStatus ==
    /\ ct.pc = "pp_status"
    /\ \E rd \in StatusReads :
          LET r == WithCall(ct, Call("Get", 0, FALSE, "PlaybackStatus"))
          IN  ct' = IF IsSome(rd) THEN [r EXCEPT !.status = rd[1], !.pc = "pp_update"]
                    ELSE Finish(r, Err("DBus"))
    /\ UNCHANGED <<connection, player, state, state_tx, rx, listeners, lt, ops, md>>
    /\ SupervisorIdle

\* { let mut state = self.state.write().await; state.is_playing = is_playing;
\*   let _ = self.state_tx.send(state.clone()); }  Ok(is_playing)
PlayPauseUpdate ==
    /\ ct.pc = "pp_update"
    /\ LET is_playing == ct.status = Playing
           new == [state EXCEPT !.is_playing = is_playing]
       IN  /\ state' = new
           /\ state_tx' = SendState(state_tx, new)
           /\ ct' = Finish([ct EXCEPT !.sends = @ + 1, !.sent = Some(new)],
                           Ok(is_playing))
    /\ UNCHANGED <<connection, player, rx, listeners, lt, ops, md>>
    /\ SupervisorIdle

\* ------------------------------------------------- next, previous, seek
\* player.next().await?; Ok(())
NextCall ==
    /\ ct.pc = "nx_call"
    /\ \E ok \in BOOLEAN :
          ct' = Finish(WithCall(ct, Call("Next", 0, FALSE, "")),
                       IF ok THEN Ok(FALSE) ELSE Err("DBus"))
    /\ UNCHANGED <<connection, player, state, state_tx, rx, listeners, lt, ops, md>>
    /\ SupervisorIdle

\* player.previous().await?; Ok(())
PreviousCall ==
    /\ ct.pc = "pv_call"
    /\ \E ok \in BOOLEAN :
          ct' = Finish(WithCall(ct, Call("Previous", 0, FALSE, "")),
                       IF ok THEN Ok(FALSE) ELSE Err("DBus"))
    /\ UNCHANGED <<connection, player, state, state_tx, rx, listeners, lt, ops, md>>
    /\ SupervisorIdle

\* offset_ms * 1000 on the integer type: the product when it fits; otherwise
\* the wrapped value (overflow checks off) or a panic (overflow checks on),
\* the panic being NoneOpt
SeekOffset(offset_ms) ==
    IF FitsInt(offset_ms * 1000) THEN {Some(offset_ms * 1000)}
    ELSE {Some(WrapInt(offset_ms * 1000)), NoneOpt}

\* player.seek(offset_ms * 1000).await?; Ok(()).  A panic ends the task and
\* the caller gets the join error.
SeekCall ==
    /\ ct.pc = "sk_call"
    /\ \E offset \in SeekOffset(ct.offset_ms), ok \in BOOLEAN :
          ct' = IF ~IsSome(offset) THEN Finish(ct, Err("Panic"))
                ELSE Finish(WithCall(ct, Call("Seek", offset[1], FALSE, "")),
                            IF ok THEN Ok(FALSE) ELSE Err("DBus"))
    /\ UNCHANGED <<connection, player, state, state_tx, rx, listeners, lt, ops, md>>
    /\ SupervisorIdle

\* ------------------------------------ set_volume, set_shuffle, set_repeat
\* player.set_volume(volume).await?
SetVolumeCall ==
    /\ ct.pc = "sv_call"
    /\ \E ok \in BOOLEAN :
          LET r == WithCall(ct, Call("Set:Volume", ct.volume, FALSE, ""))
          IN  ct' = IF ok THEN [r EXCEPT !.pc = "sv_update"] ELSE Finish(r, Err("DBus"))
    /\ UNCHANGED <<connection, player, state, state_tx, rx, listeners, lt, ops, md>>
    /\ SupervisorIdle

SetVolumeUpdate_ResetsPosition ==
    /\ ct.pc = "sv_update"
    /\ LET new == [state EXCEPT !.volume = ct.volume, !.position_ms = 0]
       IN  /\ state' = new
           /\ state_tx' = SendState(state_tx, new)
           /\ ct' = Finish([ct EXCEPT !.sends = @ + 1, !.sent = Some(new)], Ok(FALSE))
    /\ UNCHANGED <<connection, player, rx, listeners, lt, ops, md>>
    /\ SupervisorIdle

\* { state.volume = volume; let _ = self.state_tx.send(state.clone()); }
SetVolumeUpdate ==
    /\ ct.pc = "sv_update"
    /\ LET new == [state EXCEPT !.volume = ct.volume]
       IN  /\ state' = new
           /\ state_tx' = SendState(state_tx, new)
           /\ ct' = Finish([ct EXCEPT !.sends = @ + 1, !.sent = Some(new)], Ok(FALSE))
    /\ UNCHANGED <<connection, player, rx, listeners, lt, ops, md>>
    /\ SupervisorIdle

\* player.set_shuffle(shuffle).await?
SetShuffleCall ==
    /\ ct.pc = "sh_call"
    /\ \E ok \in BOOLEAN :
          LET r == WithCall(ct, Call("Set:Shuffle", 0, ct.shuffle, ""))
          IN  ct' = IF ok THEN [r EXCEPT !.pc = "sh_update"] ELSE Finish(r, Err("DBus"))
    /\ UNCHANGED <<connection, player, state, state_tx, rx, listeners, lt, ops, md>>
    /\ SupervisorIdle

\* { state.shuffle = shuffle; let _ = self.state_tx.send(state.clone()); }
SetShuffleUpdate ==
    /\ ct.pc = "sh_update"
    /\ LET new == [state EXCEPT !.shuffle = ct.shuffle]
       IN  /\ state' = new
           /\ state_tx' = SendState(state_tx, new)
           /\ ct' = Finish([ct EXCEPT !.sends = @ + 1, !.sent = Some(new)], Ok(FALSE))
    /\ UNCHANGED <<connection, player, rx, listeners, lt, ops, md>>
    /\ SupervisorIdle

\* player.set_loop_status(status).await?
SetRepeatCall ==
    /\ ct.pc = "rp_call"
    /\ \E ok \in BOOLEAN :
          LET r == WithCall(ct, Call("Set:LoopStatus", 0, FALSE, LoopStatusOf(ct.repeat)))
          IN  ct' = IF ok THEN [r EXCEPT !.pc = "rp_update"] ELSE Finish(r, Err("DBus"))
    /\ UNCHANGED <<connection, player, state, state_tx, rx, listeners, lt, ops, md>>
    /\ SupervisorIdle

\* { state.repeat = repeat; let _ = self.state_tx.send(state.clone()); }
SetRepeatUpdate ==
    /\ ct.pc = "rp_update"
    /\ LET new == [state EXCEPT !.repeat = ct.repeat]
       IN  /\ state' = new
           /\ state_tx' = SendState(state_tx, new)
           /\ ct' = Finish([ct EXCEPT !.sends = @ + 1, !.sent = Some(new)], Ok(FALSE))
    /\ UNCHANGED <<connection, player, rx, listeners, lt, ops, md>>
    /\ SupervisorIdle

\* ---------------------------------------------------------- refresh_state
\* the six property reads, in the order of the code
ReadCalls ==
    <<Call("Get", 0, FALSE, "PlaybackStatus"), Call("Get", 0, FALSE, "Metadata"),
      Call("Get", 0, FALSE, "Volume"), Call("Get", 0, FALSE, "Shuffle"),
      Call("Get", 0, FALSE, "LoopStatus"), Call("Get", 0, FALSE, "Position")>>

RefreshState_KeepsOnFailure(cur, st, m, v, sh, lo, po) ==
    PlaybackState(IF IsSome(st) THEN st[1] = Playing ELSE cur.is_playing,
                  IF IsSome(po) THEN TruncDiv(po[1], 1000) ELSE cur.position_ms,
                  IF IsSome(m) THEN RefreshDuration(m[1]) ELSE cur.duration_ms,
                  IF IsSome(v) THEN v[1] ELSE cur.volume,
                  IF IsSome(sh) THEN sh[1] ELSE cur.shuffle,
                  IF IsSome(lo) THEN RepeatOf(lo[1]) ELSE cur.repeat,
                  IF IsSome(m) THEN RefreshTrack(m[1]) ELSE cur.track)

\* new_state of refresh_state from the cached state and the six reads
RefreshState(cur, st, m, v, sh, lo, po) == RefreshSnapshot(st, m, v, sh, lo, po)

\* the reads with unwrap_or_default / unwrap_or, and new_state built from them
RefreshRead ==
    /\ ct.pc = "rf_read"
    /\ \E st \in StatusReads, m \in MetadataReads, v \in VolumeReads,
          sh \in ShuffleReads, lo \in LoopStatusReads, po \in PositionReads :
          ct' = [ct EXCEPT
                   !.calls = @ \o ReadCalls,
                   !.failed = {n \in {"status", "metadata", "volume", "shuffle",
                                      "loop_status", "position"} :
                                 \/ n = "status" /\ ~IsSome(st)
                                 \/ n = "metadata" /\ ~IsSome(m)
                                 \/ n = "volume" /\ ~IsSome(v)
                                 \/ n = "shuffle" /\ ~IsSome(sh)
                                 \/ n = "loop_status" /\ ~IsSome(lo)
                                 \/ n = "position" /\ ~IsSome(po)},
                   !.status = UnwrapOr(st, ""),
                   !.new_state = RefreshState(state, st, m, v, sh, lo, po),
                   !.pc = "rf_write"]
    /\ UNCHANGED <<connection, player, state, state_tx, rx, listeners, lt, ops, md>>
    /\ SupervisorIdle

\* *self.state.write().await = new_state.clone();
RefreshWrite ==
    /\ ct.pc = "rf_write"
    /\ state' = ct.new_state
    /\ ct' = [ct EXCEPT !.pc = "rf_send"]
    /\ UNCHANGED <<connection, player, state_tx, rx, listeners, lt, ops, md>>
    /\ SupervisorIdle

\* let _ = self.state_tx.send(new_state); Ok(())  -- back in try_connect when
\* called from there
RefreshSend ==
    /\ ct.pc = "rf_send"
    /\ state_tx' = SendState(state_tx, ct.new_state)
    /\ LET r == [ct EXCEPT !.sends = @ + 1, !.sent = Some(ct.new_state)]
       IN  ct' = IF ct.op = "connect" THEN [r EXCEPT !.pc = "tc_listen"]
                 ELSE Finish(r, Ok(FALSE))
    /\ UNCHANGED <<connection, player, state, rx, listeners, lt, ops, md>>
    /\ SupervisorIdle

\* ---------------------------------------------------------------- connect
Delay_Constant(attempt) == InitialDelayMs

\* initial_delay_ms * 2_u64.pow(attempt - 1)
Delay(attempt) == InitialDelayMs * 2 ^ (attempt - 1)

\* if attempt > 0 { sleep(delay) }
ConnectDelay ==
    /\ ct.pc = "cn_delay"
    /\ ct' = [ct EXCEPT !.delays = Append(@, Delay(ct.attempt)), !.pc = "tc_session"]
    /\ UNCHANGED <<connection, player, state, state_tx, rx, listeners, lt, ops, md>>
    /\ SupervisorIdle

\* last_error.unwrap_or(MprisError::NotConnected)
LastError(r) == UnwrapOr(r.last_error, "NotConnected")

\* the loop is over: Err(last_error.unwrap_or(MprisError::NotConnected))
ConnectExhausted ==
    /\ ct.pc = "cn_exhausted"
    /\ ct' = Finish(ct, Err(LastError(ct)))
    /\ UNCHANGED <<connection, player, state, state_tx, rx, listeners, lt, ops, md>>
    /\ SupervisorIdle

\* try_connect: Connection::session().await?
TrySession ==
    /\ ct.pc = "tc_session"
    /\ \E ok \in BOOLEAN :
          LET r == [ct EXCEPT !.tries = @ + 1, !.names = {}, !.service_name = NoPlayer]
          IN  ct' = IF ok THEN [r EXCEPT !.pc = "tc_discover"]
                    ELSE AttemptFailed(r, "DBus")
    /\ UNCHANGED <<connection, player, state, state_tx, rx, listeners, lt, ops, md>>
    /\ SupervisorIdle

\* discover_player: list_names, then the first listed name that passes the
\* test; the bus lists its names in no particular order
TryDiscover ==
    /\ ct.pc = "tc_discover"
    /\ \/ ct' = AttemptFailed(ct, "DBus")
       \/ \E names \in SUBSET BusNames :
             LET r == [ct EXCEPT !.names = names]
                 found == {n \in names : IsPlayerName(n)}
             IN  IF found = {} THEN ct' = AttemptFailed(r, "PlayerNotFound")
                 ELSE \E n \in found :
                         ct' = [r EXCEPT !.service_name = n, !.pc = "tc_build"]
    /\ UNCHANGED <<connection, player, state, state_tx, rx, listeners, lt, ops, md>>
    /\ SupervisorIdle

\* PlayerProxy::builder(&conn).destination(service_name)?.build().await?
TryBuild ==
    /\ ct.pc = "tc_build"
    /\ \E ok \in BOOLEAN :
          ct' = IF ok THEN [ct EXCEPT !.names = {}, !.pc = "tc_store_connection"]
                ELSE AttemptFailed(ct, "DBus")
    /\ UNCHANGED <<connection, player, state, state_tx, rx, listeners, lt, ops, md>>
    /\ SupervisorIdle

\* *self.connection.write().await = Some(conn.clone());
TryStoreConnection ==
    /\ ct.pc = "tc_store_connection"
    /\ connection' = TRUE
    /\ ct' = [ct EXCEPT !.pc = "tc_store_player"]
    /\ UNCHANGED <<player, state, state_tx, rx, listeners, lt, ops, md>>
    /\ SupervisorIdle

\* *self.player.write().await = Some(player.clone()); then refresh_state
TryStorePlayer ==
    /\ ct.pc = "tc_store_player"
    /\ player' = ct.service_name
    /\ ct' = [ct EXCEPT !.pc = "c_player"]
    /\ UNCHANGED <<connection, state, state_tx, rx, listeners, lt, ops, md>>
    /\ SupervisorIdle

\* self.start_signal_listener(player).await; Ok(())
TryListen ==
    /\ ct.pc = "tc_listen"
    /\ listeners' = listeners + 1
    /\ ct' = Finish(ct, Ok(FALSE))
    /\ UNCHANGED <<connection, player, state, state_tx, rx, lt, ops, md>>
    /\ SupervisorIdle

\* -------------------------------------------------------------- listeners
\* A change event of the playback status reaches the status listeners:
\* change.get() gives the new status, or fails and the event is dropped.
StatusEvent(cap) ==
    /\ listeners > 0
    /\ ct.pc = "idle"
    /\ lt.pc = "idle"
    /\ ops < cap
    /\ ops' = ops + 1
    /\ \E rd \in StatusReads :
          lt' = IF IsSome(rd)
                THEN [IdleEvent EXCEPT !.pc = "l_write", !.kind = "status",
                                       !.status = rd[1], !.left = listeners]
                ELSE lt
    /\ UNCHANGED <<connection, player, state, state_tx, rx, listeners, ct, md>>
    /\ SupervisorIdle

\* A change event of the metadata reaches the metadata listeners.
MetadataEvent(cap) ==
    /\ listeners > 0
    /\ ct.pc = "idle"
    /\ lt.pc = "idle"
    /\ ops < cap
    /\ ops' = ops + 1
    /\ \E rd \in MetadataReads \cup {Some(EmptyMetadata)} :
          lt' = IF IsSome(rd)
                THEN [IdleEvent EXCEPT !.pc = "l_write", !.kind = "metadata",
                                       !.metadata = rd[1], !.left = listeners]
                ELSE lt
    /\ UNCHANGED <<connection, player, state, state_tx, rx, listeners, ct, md>>
    /\ SupervisorIdle

\* current_state.is_playing = new_status == "Playing";
\* let updated_state = current_state.clone(); drop(current_state);
StatusWrite ==
    /\ lt.pc = "l_write"
    /\ lt.kind = "status"
    /\ LET new == [state EXCEPT !.is_playing = lt.status = Playing]
       IN  /\ state' = new
           /\ lt' = [lt EXCEPT !.updated_state = new, !.pc = "l_send"]
    /\ UNCHANGED <<connection, player, state_tx, rx, listeners, ct, ops, md>>
    /\ SupervisorIdle

\* current_state.track = track_info; current_state.duration_ms = duration_ms;
\* let updated_state = current_state.clone(); drop(current_state);
MetadataWrite ==
    /\ lt.pc = "l_write"
    /\ lt.kind = "metadata"
    /\ LET new == [state EXCEPT !.track = ListenerTrack(lt.metadata),
                                !.duration_ms = ListenerDuration(lt.metadata)]
       IN  /\ state' = new
           /\ lt' = [lt EXCEPT !.updated_state = new, !.pc = "l_send"]
    /\ UNCHANGED <<connection, player, state_tx, rx, listeners, ct, ops, md>>
    /\ SupervisorIdle

\* let _ = state_tx.send(updated_state); the listener of the next pair, if
\* any, handles the same event after it
ListenerSend ==
    /\ lt.pc = "l_send"
    /\ state_tx' = SendState(state_tx, lt.updated_state)
    /\ lt' = IF lt.left > 1 THEN [lt EXCEPT !.left = @ - 1, !.pc = "l_write"]
             ELSE IdleEvent
    /\ UNCHANGED <<connection, player, state, rx, listeners, ct, ops, md>>
    /\ SupervisorIdle

\* -------------------------------------------------------------- consumers
\* on_state_change: RUNTIME.spawn of the consumer task
OnStateChange(c) ==
    /\ rx[c].pc = "none"
    /\ \A d \in Consumers : d < c => rx[d].pc # "none"
    /\ rx' = [rx EXCEPT ![c] = [NoConsumer EXCEPT !.pc = "spawned"]]
    /\ UNCHANGED <<connection, player, state, state_tx, listeners, ct, lt, ops, md>>
    /\ SupervisorIdle

SubscribeAt_Oldest(tail) ==
    IF tail > ChannelCapacity THEN tail - ChannelCapacity ELSE 0

\* broadcast::Sender::subscribe: the new Receiver starts at the tail
SubscribeAt(tail) == tail

\* let mut rx = inner.subscribe_state_changes();
SubscribeStateChanges(c) ==
    /\ rx[c].pc = "spawned"
    /\ rx' = [rx EXCEPT ![c] = [@ EXCEPT !.pc = "recv", !.since = state_tx.tail,
                                         !.next = SubscribeAt(state_tx.tail)]]
    /\ UNCHANGED <<connection, player, state, state_tx, listeners, ct, lt, ops, md>>
    /\ SupervisorIdle

\* rx.recv() gives Ok(state), the snapshot at the Receiver's position, and
\* the callback is called with it; snapshots are numbered from 1 as sent
RecvOk(c) ==
    /\ rx[c].pc = "recv"
    /\ rx[c].next < state_tx.tail
    /\ state_tx.tail - rx[c].next <= ChannelCapacity
    /\ rx' = [rx EXCEPT ![c] =
                [@ EXCEPT !.next = @ + 1, !.last = rx[c].next + 1,
                          !.fresh = @ /\ rx[c].next + 1 > rx[c].since,
                          !.inorder = @ /\ rx[c].next + 1 > rx[c].last]]
    /\ UNCHANGED <<connection, player, state, state_tx, listeners, ct, lt, ops, md>>
    /\ SupervisorIdle

\* where the consumer task is after recv() gave Err(Lagged): `while let Ok`
\* ends the loop, the task finishes and drops its Receiver
AfterLagged == "ended"

\* rx.recv() gives Err(RecvError::Lagged): the snapshot at the Receiver's
\* position was overwritten; the Receiver moves to the oldest one retained
RecvLagged(c) ==
    /\ rx[c].pc = "recv"
    /\ state_tx.tail - rx[c].next > ChannelCapacity
    /\ rx' = [rx EXCEPT ![c] =
                [@ EXCEPT !.next = state_tx.tail - ChannelCapacity,
                          !.lagged = TRUE, !.pc = AfterLagged]]
    /\ UNCHANGED <<connection, player, state, state_tx, listeners, ct, lt, ops, md>>
    /\ SupervisorIdle

\* ------------------------------------------------------- metadata parsing
\* refresh_state applied to the metadata alone
ParseInRefresh ==
    /\ md.pc = "new"
    /\ md' = [md EXCEPT !.pc = "parsed", !.path = "refresh",
                        !.track = RefreshTrack(md.input),
                        !.duration_ms = RefreshDuration(md.input)]
    /\ UNCHANGED ctl
    /\ SupervisorIdle

\* the metadata listener applied to the metadata alone
ParseInListener ==
    /\ md.pc = "new"
    /\ md' = [md EXCEPT !.pc = "parsed", !.path = "listener",
                        !.track = ListenerTrack(md.input),
                        !.duration_ms = ListenerDuration(md.input)]
    /\ UNCHANGED ctl
    /\ SupervisorIdle

\* --------------------------------------------------------- specifications
\* SpotifydSupervisor::new with no process and no name on a reachable bus
SupervisorNew ==
    /\ procs = [p \in Pids |-> "none"]
    /\ onBus = {}
    /\ busUp = TRUE
    /\ envSteps = 0
    /\ spawned_child_pid = None
    /\ adopted_pid = None
    /\ status = DefaultStatus
    /\ receivers = FALSE
    /\ start_lock = None
    /\ tk = [t \in Tasks |-> IdleTask]

CtlInit == SupervisorNew /\ ControllerNew /\ md = NoParse /\ sw = NoSpawn /\ lsn = NoListen

CtlStep ==
    \/ PlayerCheck
    \/ PlayPauseCall \/ PlayPauseStatus \/ PlayPauseUpdate
    \/ NextCall \/ PreviousCall \/ SeekCall
    \/ SetVolumeCall \/ SetVolumeUpdate
    \/ SetShuffleCall \/ SetShuffleUpdate
    \/ SetRepeatCall \/ SetRepeatUpdate
    \/ RefreshRead \/ RefreshWrite \/ RefreshSend
    \/ TrySession \/ TryDiscover \/ TryBuild
    \/ TryStoreConnection \/ TryStorePlayer \/ TryListen
    \/ ConnectDelay \/ ConnectExhausted

\* the controller, one call or listener event at a time, and its consumers;
\* with fewer than ChannelCapacity snapshots sent no Receiver can lag
CtlNext ==
    \/ CtlBegin(MaxCtlOps)
    \/ CtlStep
    \/ CtlRetire
    \/ StatusEvent(MaxCtlOps)
    \/ MetadataEvent(MaxCtlOps)
    \/ StatusWrite
    \/ MetadataWrite
    \/ ListenerSend
    \/ \E c \in 1 .. MaxCtlConsumers :
          OnStateChange(c) \/ SubscribeStateChanges(c) \/ RecvOk(c)

CtlSpec == CtlInit /\ [][CtlNext]_vars

\* a connected controller after one successful connect whose reads all
\* failed: the snapshot holds the defaults of refresh_state
ChanInit ==
    /\ SupervisorNew
    /\ connection = TRUE
    /\ player = "org.mpris.MediaPlayer2.spotifyd.instance4242"
    /\ state = RefreshSnapshot(NoneOpt, NoneOpt, NoneOpt, NoneOpt, NoneOpt, NoneOpt)
    /\ state_tx = [tail |-> 0, last |-> NoneOpt]
    /\ rx = [c \in Consumers |-> NoConsumer]
    /\ listeners = 1
    /\ ct = IdleCall
    /\ lt = IdleEvent
    /\ ops = 0
    /\ md = NoParse /\ sw = NoSpawn /\ lsn = NoListen

\* the state-change channel: the status listener publishes, the consumers
\* register, subscribe and receive at their own pace
ChanNext ==
    \/ StatusEvent(MaxChanOps)
    \/ StatusWrite
    \/ ListenerSend
    \/ \E c \in Consumers :
          OnStateChange(c) \/ SubscribeStateChanges(c) \/ RecvOk(c) \/ RecvLagged(c)

ChanSpec == ChanInit /\ [][ChanNext]_vars

\* metadata mappings given to the parser: every attribute absent, of the
\* expected type, or of another type
MetadataInputs ==
    {Metadata(title, artist, album, artUrl, trackid, length) :
        title \in {NoEntry, Str("Song A"), I64(7)},
        artist \in {NoEntry, Array(<<>>), Array(<<Str("Artist B")>>),
                    Array(<<Str("Artist B"), Str("Artist C")>>),
                    Array(<<I64(7)>>), Str("Artist B")},
        album \in {NoEntry, Str("Album C"), I64(7)},
        artUrl \in {NoEntry, Str("http://art/1")},
        trackid \in {NoEntry, ObjectPath("/track/1"), Str("track1")},
        length \in {NoEntry, I64(3000000), I64(1999), I64(-1500), U64(3000000)}}

ParseInit ==
    /\ SupervisorNew
    /\ ControllerNew
    /\ md \in {[NoParse EXCEPT !.pc = "new", !.input = m] : m \in MetadataInputs}
    /\ sw = NoSpawn /\ lsn = NoListen

ParseNext == ParseInRefresh \/ ParseInListener

ParseSpec == ParseInit /\ [][ParseNext]_vars

\* ================================================= start_fresh: the spawn
\* start_fresh from the search for the binary to the settle check, with the
\* double fork one process at a time.  FreshFork .. FreshRollback above are
\* the same lines with the search and the two forks taken as one step.

\* pids fork() may return
ForkPids == {7, 10, 321}

\* the directory on PATH that execvp searches for a name without '/'
PathDir == "/usr/bin"

\* Path::exists
Exists(files, path) == path \in files

\* [home, ".spotify-tui", "bin", "spotifyd"].iter().collect::<PathBuf>()
DownloadedPath(home) == home \o "/.spotify-tui/bin/spotifyd"

\* find_spotifyd_binary
FindSpotifydBinary(config_path, env_path, home, files) ==
    IF IsSome(config_path) /\ Exists(files, config_path[1]) THEN config_path[1]
    ELSE IF IsSome(env_path) /\ Exists(files, env_path[1]) THEN env_path[1]
    ELSE IF IsSome(home) /\ Exists(files, DownloadedPath(home[1]))
         THEN DownloadedPath(home[1])
    ELSE "spotifyd"

\* start_fresh: !Path::new(&binary_path).exists() && binary_path != "spotifyd"
BinaryNotFound(files, binary_path) ==
    ~Exists(files, binary_path) /\ binary_path # "spotifyd"

\* execvp(binary_path): a name without '/' is looked up on PATH
ExecFinds(files, binary_path) ==
    IF binary_path = "spotifyd" THEN Exists(files, PathDir \o "/spotifyd")
    ELSE Exists(files, binary_path)

DecimalDigits == <<"0", "1", "2", "3", "4", "5", "6", "7", "8", "9">>

\* format!("{}", pid2)
RECURSIVE FormatPid(_)
FormatPid(n) ==
    IF n < 10 THEN <<DecimalDigits[n + 1]>>
    ELSE FormatPid(n \div 10) \o <<DecimalDigits[(n % 10) + 1]>>

RECURSIVE DecimalValue(_)
DecimalValue(s) ==
    IF s = <<>> THEN 0
    ELSE 10 * DecimalValue(SubSeq(s, 1, Len(s) - 1))
         + (CHOOSE d \in 0 .. 9 : DecimalDigits[d + 1] = s[Len(s)])

\* s.trim().parse::<u32>().ok()
ParseU32(s) ==
    IF s = <<>> \/ \E i \in 1 .. Len(s) : \A d \in 1 .. 10 : DecimalDigits[d] # s[i]
    THEN NoneOpt
    ELSE Some(DecimalValue(s))

\* std::fs::write(&pid_file, text): the whole text, or on failure no file
\* (it could not be created) or an empty one (nothing could be written)
WriteOutcomes(text) == {NoneOpt, Some(<<>>), Some(text)}

\* the process table as /proc shows it: the grandchild from its fork to its exit
SpawnProcs ==
    [p \in 0 .. 321 |->
        IF p = sw.pid2 /\ sw.grand \in {"exec", "daemon"} THEN "S" ELSE "none"]

SpawnInputs ==
    {[NoSpawn EXCEPT !.pc = "find", !.config_path = c, !.env_path = e,
                     !.home = h, !.files = f, !.given = f] :
        c \in {NoneOpt, Some("/opt/spotifyd/spotifyd")},
        e \in {NoneOpt, Some("/srv/spotifyd")},
        h \in {NoneOpt, Some("/home/u")},
        f \in SUBSET {"/opt/spotifyd/spotifyd", "/srv/spotifyd",
                      "/home/u/.spotify-tui/bin/spotifyd", "/usr/bin/spotifyd"}}

\* what no step of the spawn touches
SpawnFrame == UNCHANGED <<env, status, receivers, start_lock, tk, ctl, md, lsn>>

SpawnLocal == SpawnFrame /\ UNCHANGED <<spawned_child_pid, adopted_pid>>

\* let binary_path = find_spotifyd_binary(&self.config)
SpawnFind ==
    /\ sw.pc = "find"
    /\ sw' = [sw EXCEPT !.binary_path = FindSpotifydBinary(sw.config_path, sw.env_path,
                                                           sw.home, sw.files),
                        !.pc = "check"]
    /\ SpawnLocal

\* the existence check: Err(ProcessSpawn("spotifyd binary not found at ..")) or on
SpawnCheck ==
    /\ sw.pc = "check"
    /\ IF BinaryNotFound(sw.files, sw.binary_path)
       THEN sw' = [sw EXCEPT !.err = "binary not found", !.pc = "failed"]
       ELSE sw' = [sw EXCEPT !.pc = "fork"]
    /\ SpawnLocal

\* the environment removes one of the files
SpawnUnlink ==
    /\ sw.pc \in {"check", "fork", "waitpid"}
    /\ sw.grand \in {"none", "exec"}
    /\ \E f \in sw.files : sw' = [sw EXCEPT !.files = @ \ {f}]
    /\ SpawnLocal

\* first fork: pid < 0 is Err(ProcessSpawn("Fork failed")); otherwise the
\* caller goes on to waitpid and the first child starts
SpawnFirstFork ==
    /\ sw.pc = "fork"
    /\ \/ sw' = [sw EXCEPT !.err = "Fork failed", !.pc = "failed"]
       \/ \E p \in ForkPids :
             sw' = [sw EXCEPT !.pid = p, !.first = "setsid", !.pc = "waitpid"]
    /\ SpawnLocal

\* first child: setsid, second fork; pid2 < 0 is exit(1)
SpawnSecondFork ==
    /\ sw.first = "setsid"
    /\ \/ sw' = [sw EXCEPT !.first = "exit1"]
       \/ \E q \in ForkPids \ {sw.pid} :
             sw' = [sw EXCEPT !.pid2 = q, !.grand = "exec", !.first = "write"]
    /\ SpawnLocal

\* first child: let _ = std::fs::write(&pid_file, format!("{}", pid2)); exit(0)
SpawnWriteHandoff ==
    /\ sw.first = "write"
    /\ \E w \in WriteOutcomes(FormatPid(sw.pid2)) :
          sw' = [sw EXCEPT !.pid_file = w, !.first = "exit0"]
    /\ SpawnLocal

\* grandchild: execvp(binary, argv); _exit(1) if it returns
SpawnExec ==
    /\ sw.grand = "exec"
    /\ sw' = [sw EXCEPT !.grand = IF ExecFinds(sw.files, sw.binary_path)
                                  THEN "daemon" ELSE "exited"]
    /\ SpawnLocal

\* the daemon exits by itself
SpawnDaemonExit ==
    /\ sw.grand = "daemon"
    /\ sw' = [sw EXCEPT !.grand = "exited"]
    /\ SpawnLocal

\* caller: waitpid(pid, &mut status, 0) returns once the first child has exited
SpawnWaitPid ==
    /\ sw.pc = "waitpid"
    /\ sw.first \in {"exit0", "exit1"}
    /\ sw' = [sw EXCEPT !.first = "reaped", !.pc = "read"]
    /\ SpawnLocal

\* caller: read_to_string(&pid_file).ok().and_then(|s| s.trim().parse::<u32>().ok())
SpawnReadHandoff ==
    /\ sw.pc = "read"
    /\ sw' = [sw EXCEPT !.grandchild_pid = AndThen(sw.pid_file, ParseU32),
                        !.pc = "remove"]
    /\ SpawnLocal

\* caller: let _ = remove_file(&pid_file); grandchild_pid.ok_or_else(ProcessSpawn)
SpawnRemoveHandoff ==
    /\ sw.pc = "remove"
    /\ IF IsSome(sw.grandchild_pid)
       THEN sw' = [sw EXCEPT !.pid_file = NoneOpt, !.removed = TRUE,
                             !.child_pid = sw.grandchild_pid[1], !.pc = "store"]
       ELSE sw' = [sw EXCEPT !.pid_file = NoneOpt, !.removed = TRUE,
                             !.err = "Failed to get grandchild PID", !.pc = "failed"]
    /\ SpawnLocal

\* *self.spawned_child_pid.write().await = Some(child_pid);
\* *self.adopted_pid.write().await = None
SpawnStore ==
    /\ sw.pc = "store"
    /\ spawned_child_pid' = sw.child_pid
    /\ adopted_pid' = None
    /\ sw' = [sw EXCEPT !.tracked = @ \cup {sw.child_pid}, !.pc = "settle"]
    /\ SpawnFrame

\* after the settle delay: if !is_pid_alive(child_pid) the pid is cleared and
\* the call fails; otherwise start_fresh goes on to publish the status
SpawnSettle ==
    /\ sw.pc = "settle"
    /\ IF SettleAlive(SpawnProcs, sw.child_pid)
       THEN /\ sw' = [sw EXCEPT !.pc = "send"]
            /\ UNCHANGED spawned_child_pid
       ELSE /\ sw' = [sw EXCEPT !.err = "exited immediately", !.pc = "failed"]
            /\ spawned_child_pid' = None
    /\ UNCHANGED adopted_pid
    /\ SpawnFrame

SpawnInit ==
    /\ SupervisorNew
    /\ ControllerNew
    /\ md = NoParse
    /\ sw \in SpawnInputs
    /\ lsn = NoListen

SpawnNext ==
    \/ SpawnFind
    \/ SpawnCheck
    \/ SpawnUnlink
    \/ SpawnFirstFork
    \/ SpawnSecondFork
    \/ SpawnWriteHandoff
    \/ SpawnExec
    \/ SpawnDaemonExit
    \/ SpawnWaitPid
    \/ SpawnReadHandoff
    \/ SpawnRemoveHandoff
    \/ SpawnStore
    \/ SpawnSettle

SpawnSpec == SpawnInit /\ [][SpawnNext]_vars

\* ======================================= the snapshot lock, tasks overlapping
\* The writers of ControllerInner.state one lock access, assignment or send at
\* a time: the status listener, the metadata listener and one caller at the
\* point where its bus calls have answered (play_pause, set_volume,
\* set_shuffle, set_repeat, refresh_state), with get_state reading in between.
MaxLockOps == 3

Listeners == {"status", "metadata"}
LockTasks == Listeners \cup {"call"}

\* what a caller is about to write: the operation and its value; refresh_state
\* has read the daemon's properties as they are now
CallWrites ==
    {[op |-> "play_pause", value |-> TRUE], [op |-> "play_pause", value |-> FALSE],
     [op |-> "set_volume", value |-> 50], [op |-> "set_shuffle", value |-> TRUE],
     [op |-> "set_repeat", value |-> "Track"],
     [op |-> "refresh_state",
      value |-> RefreshSnapshot(Some(lsn.daemon), Some(SongMetadata), Some(50),
                                Some(TRUE), Some("Track"), Some(1500999))]}

\* the initial value of lsn under LockSpec: both listeners wait for their
\* first event, the caller is idle, nobody holds the write lock
LockStart ==
    [holder |-> "none",
     task |-> [t \in LockTasks |->
                  [pc |-> IF t = "call" THEN "idle" ELSE "next", op |-> "none",
                   value |-> FALSE, track_info |-> NoneOpt, duration_ms |-> 0,
                   updated_state |-> DefaultPlaybackState, last |-> "none"]],
     begun |-> 0,
     history |-> {RefreshSnapshot(NoneOpt, NoneOpt, NoneOpt, NoneOpt, NoneOpt, NoneOpt)},
     seen |-> NoneOpt,
     daemon |-> "Paused", fresh |-> FALSE]

\* everything but the snapshot, the channel and the lock
LockFrame ==
    UNCHANGED <<env, sup, tk, sw, md, connection, player, rx, listeners, ct, lt, ops>>

T(t) == lsn.task[t]
Move(t, r) == [lsn EXCEPT !.task[t] = r]

\* while let Some(change) = stream.next().await: the next change event, or
\* None when the stream has ended and the listener leaves its loop; the
\* daemon's playback status changes as its notification is delivered
StreamNext(l) ==
    /\ T(l).pc = "next"
    /\ \/ /\ lsn.begun < MaxLockOps
          /\ lsn' = [Move(l, [T(l) EXCEPT !.pc = "get"])
                        EXCEPT !.begun = @ + 1,
                               !.daemon = IF l # "status" THEN @
                                          ELSE IF @ = Playing THEN "Paused" ELSE Playing,
                               !.fresh = IF l = "status" THEN FALSE ELSE @]
       \/ lsn' = Move(l, [T(l) EXCEPT !.pc = "stopped", !.last = "end"])
    /\ UNCHANGED <<state, state_tx>>
    /\ LockFrame

\* the values change.get().await can give a listener: an error, or the new
\* value of the property
ChangeReads(l) ==
    IF l = "status" THEN {rd \in StatusReads : IsSome(rd) => rd[1] = lsn.daemon}
    ELSE MetadataReads \cup {Some(EmptyMetadata)}

ChangeGet_StopsOnError(l) ==
    /\ T(l).pc = "get"
    /\ \E rd \in ChangeReads(l) :
          lsn' = Move(l, IF ~IsSome(rd)
                         THEN [T(l) EXCEPT !.pc = "stopped", !.last = "err"]
                         ELSE IF l = "status"
                         THEN [T(l) EXCEPT !.value = rd[1], !.pc = "lock", !.last = "ok"]
                         ELSE [T(l) EXCEPT !.track_info = ListenerTrack(rd[1]),
                                           !.duration_ms = ListenerDuration(rd[1]),
                                           !.pc = "lock", !.last = "ok"])
    /\ UNCHANGED <<state, state_tx>>
    /\ LockFrame

\* match change.get().await: Ok(value) goes on to the update (the metadata
\* listener parses first), Err is logged and the loop continues
ChangeGet(l) ==
    /\ T(l).pc = "get"
    /\ \E rd \in ChangeReads(l) :
          lsn' = Move(l, IF ~IsSome(rd)
                         THEN [T(l) EXCEPT !.pc = "next", !.last = "err"]
                         ELSE IF l = "status"
                         THEN [T(l) EXCEPT !.value = rd[1], !.pc = "lock", !.last = "ok"]
                         ELSE [T(l) EXCEPT !.track_info = ListenerTrack(rd[1]),
                                           !.duration_ms = ListenerDuration(rd[1]),
                                           !.pc = "lock", !.last = "ok"])
    /\ UNCHANGED <<state, state_tx>>
    /\ LockFrame

\* a caller whose bus calls have answered reaches its update
CallBegin ==
    /\ T("call").pc = "idle"
    /\ lsn.begun < MaxLockOps
    /\ \E w \in CallWrites :
          lsn' = [Move("call", [T("call") EXCEPT !.op = w.op, !.value = w.value,
                                                 !.pc = "lock"])
                     EXCEPT !.begun = @ + 1]
    /\ UNCHANGED <<state, state_tx>>
    /\ LockFrame

\* state.write().await: granted when no other task holds the lock
WriteLock(t) ==
    /\ T(t).pc = "lock"
    /\ lsn.holder = "none"
    /\ lsn' = [Move(t, [T(t) EXCEPT !.pc = "write"]) EXCEPT !.holder = t]
    /\ UNCHANGED <<state, state_tx>>
    /\ LockFrame

\* an update is complete with its last assignment: the snapshot is recorded
Completed(new, t, r) ==
    [Move(t, r) EXCEPT !.history = @ \cup {new}]

\* status listener: current_state.is_playing = new_status == "Playing"
StatusAssign ==
    /\ T("status").pc = "write"
    /\ LET new == [state EXCEPT !.is_playing = T("status").value = Playing]
       IN  /\ state' = new
           /\ lsn' = [Completed(new, "status", [T("status") EXCEPT !.pc = "clone"])
                         EXCEPT !.fresh = T("status").value = lsn.daemon]
    /\ UNCHANGED state_tx
    /\ LockFrame

\* metadata listener: current_state.track = track_info
MetadataAssignTrack ==
    /\ T("metadata").pc = "write"
    /\ state' = [state EXCEPT !.track = T("metadata").track_info]
    /\ lsn' = Move("metadata", [T("metadata") EXCEPT !.pc = "write_duration"])
    /\ UNCHANGED state_tx
    /\ LockFrame

\* metadata listener: current_state.duration_ms = duration_ms
MetadataAssignDuration ==
    /\ T("metadata").pc = "write_duration"
    /\ LET new == [state EXCEPT !.duration_ms = T("metadata").duration_ms]
       IN  /\ state' = new
           /\ lsn' = Completed(new, "metadata",
                               [T("metadata") EXCEPT !.pc = "clone"])
    /\ UNCHANGED state_tx
    /\ LockFrame

\* listeners: let updated_state = current_state.clone(); drop(current_state)
CloneAndDrop(l) ==
    /\ T(l).pc = "clone"
    /\ lsn' = [Move(l, [T(l) EXCEPT !.updated_state = state, !.pc = "send"])
                  EXCEPT !.holder = "none"]
    /\ UNCHANGED <<state, state_tx>>
    /\ LockFrame

\* listeners: let _ = state_tx.send(updated_state)
ListenerPublish(l) ==
    /\ T(l).pc = "send"
    /\ state_tx' = SendState(state_tx, T(l).updated_state)
    /\ lsn' = Move(l, [T(l) EXCEPT !.pc = "next"])
    /\ UNCHANGED state
    /\ LockFrame

\* play_pause, set_volume, set_shuffle, set_repeat: the assignment in the block
CallAssigned(cur, op, value) ==
    CASE op = "play_pause" -> [cur EXCEPT !.is_playing = value]
      [] op = "set_volume" -> [cur EXCEPT !.volume = value]
      [] op = "set_shuffle" -> [cur EXCEPT !.shuffle = value]
      [] op = "set_repeat" -> [cur EXCEPT !.repeat = value]

CallAssign ==
    /\ T("call").pc = "write"
    /\ T("call").op # "refresh_state"
    /\ LET new == CallAssigned(state, T("call").op, T("call").value)
       IN  /\ state' = new
           /\ lsn' = [Completed(new, "call", [T("call") EXCEPT !.pc = "send_in_block"])
                         EXCEPT !.fresh = @ /\ T("call").op # "play_pause"]
    /\ UNCHANGED state_tx
    /\ LockFrame

\* the same block: let _ = self.state_tx.send(state.clone()), the guard alive
CallPublish ==
    /\ T("call").pc = "send_in_block"
    /\ state_tx' = SendState(state_tx, state)
    /\ lsn' = Move("call", [T("call") EXCEPT !.pc = "end_of_block"])
    /\ UNCHANGED state
    /\ LockFrame

\* the closing brace of the block drops the guard
CallUnlock ==
    /\ T("call").pc = "end_of_block"
    /\ lsn' = [Move("call", [T("call") EXCEPT !.pc = "idle"]) EXCEPT !.holder = "none"]
    /\ UNCHANGED <<state, state_tx>>
    /\ LockFrame

\* refresh_state: *self.state.write().await = new_state.clone(); the guard is
\* a temporary of the statement and is dropped at its end
RefreshReplace ==
    /\ T("call").pc = "write"
    /\ T("call").op = "refresh_state"
    /\ state' = T("call").value
    /\ lsn' = [Completed(T("call").value, "call", [T("call") EXCEPT !.pc = "send"])
                  EXCEPT !.holder = "none"]
    /\ UNCHANGED state_tx
    /\ LockFrame

\* refresh_state: let _ = self.state_tx.send(new_state)
RefreshPublish ==
    /\ T("call").pc = "send"
    /\ state_tx' = SendState(state_tx, T("call").value)
    /\ lsn' = Move("call", [T("call") EXCEPT !.pc = "idle"])
    /\ UNCHANGED state
    /\ LockFrame

BlockingRead_NoWait(holder) == TRUE

\* state.blocking_read(): granted when no task holds the write guard
BlockingRead(holder) == holder = "none"

\* get_state: self.state.blocking_read().clone()
GetState ==
    /\ BlockingRead(lsn.holder)
    /\ lsn' = [lsn EXCEPT !.seen = Some(state)]
    /\ UNCHANGED <<state, state_tx>>
    /\ LockFrame

\* a connected controller (as under ChanSpec) with its pair of listeners
\* started and one consumer subscribed
LockInit ==
    /\ SupervisorNew
    /\ connection = TRUE
    /\ player = "org.mpris.MediaPlayer2.spotifyd.instance4242"
    /\ state = RefreshSnapshot(NoneOpt, NoneOpt, NoneOpt, NoneOpt, NoneOpt, NoneOpt)
    /\ state_tx = [tail |-> 0, last |-> NoneOpt]
    /\ rx = [c \in Consumers |-> IF c = 1 THEN [NoConsumer EXCEPT !.pc = "recv"]
                                 ELSE NoConsumer]
    /\ listeners = 1
    /\ ct = IdleCall
    /\ lt = IdleEvent
    /\ ops = 0
    /\ md = NoParse /\ sw = NoSpawn
    /\ lsn = LockStart

LockNext ==
    \/ \E l \in Listeners : StreamNext(l)
    \/ \E l \in Listeners : ChangeGet(l)
    \/ CallBegin
    \/ \E t \in LockTasks : WriteLock(t)
    \/ StatusAssign
    \/ MetadataAssignTrack
    \/ MetadataAssignDuration
    \/ \E l \in Listeners : CloneAndDrop(l)
    \/ \E l \in Listeners : ListenerPublish(l)
    \/ CallAssign
    \/ CallPublish
    \/ CallUnlock
    \/ RefreshReplace
    \/ RefreshPublish
    \/ GetState

LockSpec == LockInit /\ [][LockNext]_vars

\* ============================================================ termination
\* start_or_adopt, stop and connect under the scheduling of the runtime: a
\* task that can take a step eventually takes it (tokio schedules every
\* spawned task, and its Mutex hands the lock to waiters in order).  The
\* environment is the one the run began in, so every call returns; a polling
\* loop is taken poll by poll while its task runs alone.  The supervisor and
\* the controller share no state: a run has the supervisor's tasks or the
\* controller's connect calls.
Alone(t) == \A d \in Tasks \ {t} : tk[d].pc \in {"idle", "retired"}

LiveBegin(t) ==
    /\ ops = 0
    /\ Begin(t, FALSE)
    /\ tk'[t].op \in {"start_or_adopt", "stop"}

LiveConnect ==
    /\ SupervisorNew
    /\ CtlBegin(MaxCtlOps)
    /\ ct'.op = "connect"

\* the steps of a connect call
ConnectStep ==
    \/ PlayerCheck
    \/ RefreshRead \/ RefreshWrite \/ RefreshSend
    \/ TrySession \/ TryDiscover \/ TryBuild
    \/ TryStoreConnection \/ TryStorePlayer \/ TryListen
    \/ ConnectDelay \/ ConnectExhausted
    \/ CtlRetire

LiveNext ==
    \/ \E t \in Tasks : LiveBegin(t)
    \/ \E t \in Tasks : Step(t, Alone(t))
    \/ LiveConnect
    \/ ConnectStep

LiveSpec ==
    /\ Init
    /\ [][LiveNext]_vars
    /\ \A t \in Tasks : WF_vars(Step(t, Alone(t)))
    /\ WF_vars(ConnectStep)

\* ------------------------------------------------------------------- claims
\* task t has just returned from operation op
Returned(t, op) == tk[t].pc = "done" /\ tk[t].op = op

\* the pid tracked when task t's operation began
EntryTracked(t) == IF tk[t].e_spawned # None THEN tk[t].e_spawned ELSE tk[t].e_adopted

\* C1: in every reachable state, the intermediate states of adopt, start_fresh,
\* start_or_adopt and stop included and with operations overlapping,
\* spawned_child_pid and adopted_pid are never both set.
C1_NeverBothSet == ~(spawned_child_pid # None /\ adopted_pid # None)

\* C1 witness: start_fresh has stored the new pid and has not yet cleared
\* adopted_pid, in a call that began with an adopted pid tracked
C1_Witness ==
    \E t \in Tasks :
        /\ tk[t].pc = "f_clear_adopted"
        /\ tk[t].e_adopted # None
        /\ spawned_child_pid = tk[t].child

\* C2: a start_or_adopt call during which the tracked process stays alive and
\* the bus keeps listing the prefix returns success, adopted:true and the pid
\* that was tracked, and forks nothing.
C2_RepeatedStartIdempotent ==
    \A t \in Tasks :
        (Returned(t, "start_or_adopt") /\ tk[t].healthy)
            => /\ tk[t].result.success
               /\ tk[t].result.adopted
               /\ tk[t].result.pid = EntryTracked(t)
               /\ tk[t].forks = {}

\* C2 witness: a repeated call (not the first operation) returned that way
C2_Witness ==
    \E t \in Tasks :
        /\ t > 1
        /\ Returned(t, "start_or_adopt")
        /\ tk[t].healthy
        /\ tk[t].result.pid = EntryTracked(t)

\* C3: the fast path of start_or_adopt changes neither spawned_child_pid nor
\* adopted_pid nor the status, sends no signal and forks nothing; a pid
\* tracked as spawned stays tracked as spawned.
C3_FastPathNoSideEffects ==
    \A t \in Tasks :
        (Returned(t, "start_or_adopt") /\ tk[t].result.message = "already")
            => /\ spawned_child_pid = tk[t].e_spawned
               /\ adopted_pid = tk[t].e_adopted
               /\ status = tk[t].e_status
               /\ tk[t].sent = {}
               /\ tk[t].forks = {}

\* C3 witness: the fast path returned adopted:true for a pid tracked as spawned
C3_Witness ==
    \E t \in Tasks :
        /\ Returned(t, "start_or_adopt")
        /\ tk[t].result.message = "already"
        /\ tk[t].result.adopted
        /\ tk[t].e_spawned # None
        /\ spawned_child_pid = tk[t].result.pid

\* task t's operation ran with the environment unchanged from entry to return
Quiet(t) == tk[t].quiet

\* C4 (as claimed): with nothing tracked and a daemon alive on the bus,
\* start_or_adopt returns success, adopted:true with the pid of a bus owner,
\* records it in adopted_pid only, publishes {running, pid, authenticated} and
\* neither signals nor forks.
C4_AdoptsHealthyUntracked ==
    \A t \in Tasks :
        (/\ Returned(t, "start_or_adopt")
         /\ EntryTracked(t) = None
         /\ Quiet(t) /\ busUp /\ onBus # {})
            => /\ tk[t].result.success
               /\ tk[t].result.adopted
               /\ tk[t].result.pid \in onBus
               /\ adopted_pid = tk[t].result.pid
               /\ spawned_child_pid = None
               /\ status = SpotifydStatus(TRUE, tk[t].result.pid, TRUE)
               /\ tk[t].sent = {}
               /\ tk[t].forks = {}

\* C5 (as claimed): with no daemon running, a successful start_or_adopt has
\* forked one, returns adopted:false, and the returned pid is alive on return.
C5_FreshPidAliveOnReturn ==
    \A t \in Tasks :
        (Returned(t, "start_or_adopt") /\ tk[t].e_nodaemon /\ tk[t].result.success)
            => /\ ~tk[t].result.adopted
               /\ tk[t].result.pid \in tk[t].forks
               /\ procs[tk[t].result.pid] = "S"

\* C5 (amended): with no daemon running, a successful start_or_adopt has
\* forked one and returns adopted:false with its pid; that pid passed the
\* liveness check after the settle delay, and it is alive on return unless the
\* process exited after that check.
C5_FreshPidAliveAtSettle ==
    \A t \in Tasks :
        (Returned(t, "start_or_adopt") /\ tk[t].e_nodaemon /\ tk[t].result.success)
            => /\ ~tk[t].result.adopted
               /\ tk[t].result.pid \in tk[t].forks
               /\ tk[t].settled
               /\ procs[tk[t].result.pid] = "S" \/ tk[t].exited

\* C5 witness: a fresh daemon was forked from no daemon at all, and is alive
\* when the call returns
C5_Witness ==
    \E t \in Tasks :
        /\ Returned(t, "start_or_adopt")
        /\ tk[t].e_nodaemon
        /\ tk[t].result.success
        /\ ~tk[t].result.adopted
        /\ procs[tk[t].result.pid] = "S"

\* C6: is_alive() is true exactly when a pid is tracked and is a readable
\* process entry that is no zombie; is_healthy() is true exactly when that
\* holds and the bus lists a name with the prefix.
C6_HealthIsAliveAndBus ==
    \A t \in Tasks :
        LET p == EntryTracked(t)
            alive == p # None /\ procs[p] = "S"
        IN  /\ (Returned(t, "is_alive") /\ Quiet(t)) => (tk[t].ret <=> alive)
            /\ (Returned(t, "is_healthy") /\ Quiet(t))
                   => (tk[t].ret <=> (alive /\ busUp /\ onBus # {}))

\* C6 witness: is_alive() returned false for a tracked pid that is a zombie
C6_Witness ==
    \E t \in Tasks :
        /\ Returned(t, "is_alive")
        /\ Quiet(t)
        /\ EntryTracked(t) # None
        /\ procs[EntryTracked(t)] = "Z"
        /\ ~tk[t].ret

\* C7: stop(force=false) on an adopted process sends it no signal, and on
\* return both tracked fields are None and the status is
\* {running:false, pid:None, authenticated:false}.
C7_StopLeavesAdoptedRunning ==
    \A t \in Tasks :
        (/\ Returned(t, "stop") /\ ~tk[t].force
         /\ tk[t].e_spawned = None /\ tk[t].e_adopted # None)
            => /\ tk[t].sent = {}
               /\ spawned_child_pid = None
               /\ adopted_pid = None
               /\ status = SpotifydStatus(FALSE, None, FALSE)

\* C7 witness: such a stop returned and the adopted process is still running
C7_Witness ==
    \E t \in Tasks :
        /\ Returned(t, "stop") /\ ~tk[t].force
        /\ tk[t].e_spawned = None /\ tk[t].e_adopted # None
        /\ procs[tk[t].e_adopted] = "S"
        /\ adopted_pid = None

\* C8: from every starting state and for both values of force, stop returns
\* Ok with the tracked state cleared and the status saying running:false,
\* whether or not a kill was attempted or succeeded.
C8_StopAlwaysClears ==
    \A t \in Tasks :
        Returned(t, "stop")
            => /\ tk[t].ret
               /\ spawned_child_pid = None
               /\ adopted_pid = None
               /\ ~status.running

\* C8 witness: stop returned after signalling a spawned process that is still
\* alive (the kill did not succeed)
C8_Witness ==
    \E t \in Tasks :
        /\ Returned(t, "stop")
        /\ tk[t].e_spawned # None
        /\ <<tk[t].e_spawned, "KILL">> \in tk[t].sent
        /\ procs[tk[t].e_spawned] = "S"
        /\ spawned_child_pid = None

\* C9: stop signals the tracked pid exactly when it was spawned by this
\* supervisor or force is set; with nothing tracked it signals only under
\* force, and then only the discovered instance; with nothing tracked and no
\* force it signals nothing.
C9_StopSignalsOnlyOwnedOrForced ==
    \A t \in Tasks :
        Returned(t, "stop")
            => LET p == EntryTracked(t)
               IN  /\ p # None =>
                         /\ (tk[t].sent # {}) <=> (tk[t].e_spawned # None \/ tk[t].force)
                         /\ \A s \in tk[t].sent : s[1] = p
                   /\ p = None =>
                         /\ tk[t].sent # {} => tk[t].force
                         /\ \A s \in tk[t].sent : s[1] = tk[t].found
                   /\ (p = None /\ ~tk[t].force) => tk[t].sent = {}

\* C9 witness: a forced stop with nothing tracked signalled a discovered daemon
C9_Witness ==
    \E t \in Tasks :
        /\ Returned(t, "stop")
        /\ EntryTracked(t) = None
        /\ tk[t].force
        /\ tk[t].found # None
        /\ <<tk[t].found, "TERM">> \in tk[t].sent

\* C10: in kill_pid SIGTERM is sent first; SIGKILL is sent only after all 20
\* polls of the grace window found the process alive, and always then; the
\* procedure returns true only if its last liveness check found the process
\* gone.
C10_EscalatingKill ==
    \A t \in Tasks :
        LET r == tk[t]
        IN  /\ r.pc \in {"k_poll", "k_kill", "k_final", "k_ret"} => r.ktermed
            /\ r.kkilled => (r.ktermed /\ r.polls = 20)
            /\ (r.pc \in {"k_final", "k_ret"} /\ r.polls = 20) => r.kkilled
            /\ (r.pc = "k_ret" /\ r.kres) => r.klast = "gone"
            /\ (r.pc = "k_ret" /\ r.kkilled /\ r.klast = "alive") => ~r.kres

\* C10 witness: kill_pid returns true after SIGKILL, the process gone
C10_Witness ==
    \E t \in Tasks :
        /\ tk[t].pc = "k_ret"
        /\ tk[t].kkilled
        /\ tk[t].polls = 20
        /\ tk[t].kres
        /\ procs[tk[t].kpid] # "S"

\* the controller call of operation op has just returned
CtlReturned(op) == ct.pc = "done" /\ ct.op = op

\* the commands that change the playback
Commands ==
    {"play_pause", "next", "previous", "seek", "set_volume", "set_shuffle",
     "set_repeat"}

\* C11 (as claimed): every command among play_pause, next, previous, seek,
\* set_volume, set_shuffle and set_repeat that returns success has sent at
\* least one snapshot, which the channel took for a consumer subscribed
\* before the command began.
C11_SuccessfulCommandPublishes ==
    (/\ ct.pc = "done" /\ ct.op \in Commands
     /\ ct.result.ok
     /\ ct.e_receiving # {})
        => /\ ct.sends >= 1
           /\ state_tx.tail > ct.e_tail

\* the operations that need the proxy
ProxyOps == Commands \cup {"refresh_state"}

\* C12: with no proxy stored, each of play_pause, next, previous, seek,
\* set_volume, set_shuffle, set_repeat and refresh_state returns the
\* NotConnected error, makes no protocol call, leaves the cached snapshot as
\* it was and sends nothing on the channel.
C12_NotConnectedBeforeConnect ==
    (/\ ct.pc = "done" /\ ct.op \in ProxyOps
     /\ ct.e_player = NoPlayer)
        => /\ ct.result = Err("NotConnected")
           /\ ct.calls = <<>>
           /\ state = ct.e_state
           /\ ct.sends = 0
           /\ state_tx = [tail |-> ct.e_tail, last |-> state_tx.last]
           /\ player = NoPlayer

\* set_volume returned on a controller without a proxy while a consumer was
\* receiving
C12_Witness ==
    /\ CtlReturned("set_volume")
    /\ ct.e_player = NoPlayer
    /\ ct.e_receiving # {}

\* C13 (as claimed): seek(offset_ms) on a connected controller makes exactly
\* one protocol call, Seek with offset_ms * 1000, for every offset_ms of the
\* integer type, and leaves the cached snapshot as it was.
C13_SeekCallsOffsetTimes1000 ==
    (CtlReturned("seek") /\ ct.e_player # NoPlayer)
        => /\ ct.calls = <<Call("Seek", ct.offset_ms * 1000, FALSE, "")>>
           /\ state = ct.e_state

\* the attribute k of mapping m, NoEntry when m does not hold it
Attr(m, k) == IF k \in DOMAIN m THEN m[k] ELSE NoEntry

\* the first element of the artist list, NoEntry when the attribute is
\* missing or the list is empty
FirstArtist(m) ==
    IF Len(Attr(m, "xesam:artist").a) = 0 THEN NoEntry
    ELSE Attr(m, "xesam:artist").a[1]

\* the text carried by an attribute, whatever its type; "" when absent
TextOf(v) == v.s

\* C14 (as claimed): for every metadata mapping, track is None exactly when
\* the title attribute is absent; otherwise track carries the title, the
\* first element of the artist list (or ""), the album (or ""), the optional
\* cover-art attribute and the track id (or ""); duration_ms is the length
\* attribute / 1000, or 0 when length is absent.
C14_ParsedByPresence ==
    md.pc = "parsed" =>
        LET m == md.input
        IN  /\ md.track = NoneOpt <=> Attr(m, "xesam:title") = NoEntry
            /\ Attr(m, "xesam:title") # NoEntry =>
                  md.track = Some(TrackInfo(
                      TextOf(Attr(m, "xesam:title")),
                      TextOf(FirstArtist(m)),
                      TextOf(Attr(m, "xesam:album")),
                      IF Attr(m, "mpris:artUrl") = NoEntry THEN NoneOpt
                      ELSE Some(TextOf(Attr(m, "mpris:artUrl"))),
                      TextOf(Attr(m, "mpris:trackid"))))
            /\ md.duration_ms = TruncDiv(Attr(m, "mpris:length").i, 1000)

\* the text of an attribute that is a string, "" for an attribute that is
\* absent or of another type
StringOf(v) == IF v.t = "s" THEN v.s ELSE ""

\* C14 (amended): an attribute counts only when it has the expected type
\* (string title, album and cover art, array artist with a string first
\* element, object-path track id, signed 64-bit length).  track is None
\* exactly when there is no string title; otherwise it carries the title and
\* the other attributes, each "" (cover art: None) when absent or of another
\* type; duration_ms is the signed length / 1000 truncated toward zero, 0
\* when there is no signed length, whether or not a title is present.  Both
\* refresh_state and the metadata listener parse this way.
C14_ParsedByTypedAttributes ==
    md.pc = "parsed" =>
        LET m == md.input
            artists == Attr(m, "xesam:artist")
        IN  /\ md.track = NoneOpt <=> Attr(m, "xesam:title").t # "s"
            /\ Attr(m, "xesam:title").t = "s" =>
                  md.track = Some(TrackInfo(
                      Attr(m, "xesam:title").s,
                      IF artists.t = "a" THEN StringOf(FirstArtist(m)) ELSE "",
                      StringOf(Attr(m, "xesam:album")),
                      IF Attr(m, "mpris:artUrl").t = "s"
                      THEN Some(Attr(m, "mpris:artUrl").s) ELSE NoneOpt,
                      IF Attr(m, "mpris:trackid").t = "o"
                      THEN Attr(m, "mpris:trackid").s ELSE ""))
            /\ md.duration_ms =
                  (IF Attr(m, "mpris:length").t = "x"
                   THEN TruncDiv(Attr(m, "mpris:length").i, 1000) ELSE 0)

\* the metadata listener parsed a mapping whose title is not a string and
\* whose length is 3_000_000: no track, duration_ms 3000
C14_Witness ==
    /\ md.pc = "parsed" /\ md.path = "listener"
    /\ Attr(md.input, "xesam:title") = I64(7)
    /\ Attr(md.input, "xesam:artist") = Array(<<Str("Artist B")>>)
    /\ Attr(md.input, "mpris:length") = I64(3000000)
    /\ md.track = NoneOpt
    /\ md.duration_ms = 3000

\* C15: connect makes at most 3 attempts, each attempt but the last made has
\* failed (none follows a success), no delay precedes attempt 1 and the delay
\* before attempt k (k = 2, 3) is 1000 * 2^(k-2) ms, and a connect whose 3
\* attempts failed returns the error of the third.
C15_ConnectRetries ==
    ct.op = "connect" =>
        /\ ct.tries <= 3
        /\ Len(ct.errs) \in {ct.tries - 1, ct.tries}
        /\ Len(ct.delays) = (IF ct.pc = "tc_session" THEN ct.tries
                             ELSE IF ct.tries = 0 THEN 0 ELSE ct.tries - 1)
        /\ \A k \in 2 .. Len(ct.delays) + 1 : ct.delays[k - 1] = 1000 * 2 ^ (k - 2)
        /\ (ct.pc = "done" /\ ct.result.ok) => Len(ct.errs) = ct.tries - 1
        /\ (ct.pc = "done" /\ ~ct.result.ok) =>
              /\ ct.tries = 3
              /\ Len(ct.errs) = 3
              /\ ct.result = Err(ct.errs[3])

\* connect returned the third attempt's error, different from the first's,
\* after delays of 1000 and 2000 ms
C15_Witness ==
    /\ CtlReturned("connect")
    /\ ct.tries = 3
    /\ ct.delays = <<1000, 2000>>
    /\ ct.errs[1] = "DBus"
    /\ ct.result = Err("PlayerNotFound")

\* C16 (as claimed): a connection attempt binds the proxy only to a bus name
\* that starts with the prefix of the supervisor's health check,
\* org.mpris.MediaPlayer2.spotifyd; when the registered names hold no such
\* name the attempt does not go on to build a proxy.
C16_BindsOnlyHealthPrefix ==
    /\ (ct.op = "connect" /\ ct.pc = "tc_build") =>
          /\ StartsWith(ct.service_name, HealthPrefix)
          /\ \E n \in ct.names : StartsWith(n, HealthPrefix)
    /\ player # NoPlayer => StartsWith(player, HealthPrefix)

\* task t is between acquiring start_lock and returning from start_or_adopt
InStartSection(t) ==
    /\ tk[t].op = "start_or_adopt"
    /\ tk[t].pc \notin {"idle", "s_lock", "done", "retired"}

\* C17: with start_or_adopt calls overlapping, at most one caller is between
\* acquiring start_lock and returning; and when one caller started from no
\* daemon and returned the daemon it spawned, and that daemon is the tracked
\* one, alive and registered during another caller's decision sequence, the
\* other caller returns adopted:true with the same pid and forks nothing, so
\* that a single process has been spawned.
C17_StartOrAdoptSerialized ==
    /\ \A t, u \in Tasks : (InStartSection(t) /\ InStartSection(u)) => t = u
    /\ \A t \in Tasks : InStartSection(t) => start_lock = t
    /\ \A t, u \in Tasks :
          (/\ t # u
           /\ Returned(t, "start_or_adopt") /\ Returned(u, "start_or_adopt")
           /\ tk[t].e_nodaemon
           /\ tk[t].result = SpotifydStartResult(TRUE, "fresh", EntryTracked(u), FALSE)
           /\ tk[u].healthy)
              => /\ tk[u].result.success /\ tk[u].result.adopted
                 /\ tk[u].result.pid = tk[t].result.pid
                 /\ tk[u].forks = {}
                 /\ tk[t].forks \cup tk[u].forks = {tk[t].result.pid}

\* two overlapping callers have returned: the first spawned the daemon from
\* nothing, the second, blocked on start_lock meanwhile, adopted it
C17_Witness ==
    /\ Returned(1, "start_or_adopt") /\ Returned(2, "start_or_adopt")
    /\ tk[1].e_nodaemon /\ tk[1].forks # {}
    /\ ~tk[1].result.adopted
    /\ tk[2].healthy
    /\ tk[2].result.adopted
    /\ tk[2].result.pid = tk[1].result.pid
    /\ envSteps = 1

\* the property reads of the refresh_state in progress that failed
Failed(n) == n \in ct.failed

\* C18: refresh_state on a connected controller returns Ok for every subset
\* of failed reads, having made the six reads; every field of the cached
\* snapshot comes from this call's reads, with is_playing = false, track =
\* None, duration_ms = 0, volume = 1.0, shuffle = false, repeat = None and
\* position_ms = 0 for the reads that failed; it has sent one snapshot, equal
\* to the cached one.
C18_RefreshReplacesEveryField ==
    (CtlReturned("refresh_state") /\ ct.e_player # NoPlayer)
        => /\ ct.result = Ok(FALSE)
           /\ ct.calls = ReadCalls
           /\ state.is_playing = (~Failed("status") /\ ct.status = "Playing")
           /\ state.track = (IF Failed("metadata") THEN NoneOpt
                             ELSE Some(TrackInfo("Song A", "Artist B", "", NoneOpt, "")))
           /\ state.duration_ms = (IF Failed("metadata") THEN 0 ELSE 3000)
           /\ state.volume = (IF Failed("volume") THEN 100 ELSE 50)
           /\ state.shuffle = ~Failed("shuffle")
           /\ state.repeat = (IF Failed("loop_status") THEN "None" ELSE "Track")
           /\ state.position_ms = (IF Failed("position") THEN 0 ELSE 1500)
           /\ ct.sends = 1
           /\ ct.sent = Some(state)
           /\ ct.e_receiving # {} =>
                 state_tx = [tail |-> ct.e_tail + 1, last |-> Some(state)]

\* refresh_state returned with all six reads failed on a cache that held a
\* track, volume 0.5, shuffle and repeat from earlier reads, a consumer
\* receiving
C18_Witness ==
    /\ CtlReturned("refresh_state")
    /\ ct.e_player # NoPlayer
    /\ ct.e_receiving # {}
    /\ ct.e_state = PlaybackState(TRUE, 1500, 3000, 50, TRUE, "Track",
                                  Some(TrackInfo("Song A", "Artist B", "", NoneOpt, "")))
    /\ ct.failed = {"status", "metadata", "volume", "shuffle", "loop_status", "position"}
    /\ state = PlaybackState(FALSE, 0, 0, 100, FALSE, "None", NoneOpt)

\* C19: a Receiver obtained from subscribe_state_changes has been given only
\* snapshots sent after it subscribed, each sent later than the one it was
\* given before.
C19_OnlyLaterSnapshotsInOrder ==
    \A c \in Consumers :
        rx[c].pc # "none" =>
            /\ rx[c].fresh
            /\ rx[c].inorder
            /\ rx[c].last = 0 \/ rx[c].last > rx[c].since
            /\ rx[c].next >= rx[c].since

\* a second consumer subscribed after three snapshots had been sent and has
\* received the fourth and the fifth
C19_Witness ==
    /\ rx[2].pc = "recv"
    /\ rx[2].since = 3
    /\ rx[2].last = 5
    /\ rx[1].last = 2

\* C20 (as claimed): a consumer registered through on_state_change that fell
\* more than 16 snapshots behind has lost only the oldest ones: its task is
\* still receiving, so that the callback goes on being invoked with the
\* snapshots retained and with those sent later.
C20_LaggedConsumerKeepsReceiving ==
    \A c \in Consumers : rx[c].lagged => rx[c].pc = "recv"

\* task t's start_or_adopt has returned after its spawned process passed the
\* settle check and the registration wait ended without seeing the prefix:
\* the bus was unreachable, or all the polls found no name (the environment
\* of a returned call is the one its last poll saw)
RegistrationMissed(t) ==
    /\ Returned(t, "start_or_adopt")
    /\ tk[t].child # None
    /\ tk[t].settled
    /\ ~(busUp /\ onBus # {})

\* C21 (as claimed): when the spawned process is alive at the settle check
\* and the registration wait fails or times out, start_or_adopt returns
\* success:true, adopted:false with the spawned pid, the pid is tracked as
\* spawned_child_pid, and the published status is running:true with that pid.
C21_RegistrationTimeoutNonFatal ==
    \A t \in Tasks :
        RegistrationMissed(t) =>
            /\ tk[t].result = SpotifydStartResult(TRUE, "fresh", tk[t].child, FALSE)
            /\ spawned_child_pid = tk[t].child
            /\ adopted_pid = None
            /\ status.running /\ status.pid = tk[t].child

\* task t's start_or_adopt has returned after its spawned process failed the
\* liveness check that follows the settle delay
SettleFailed(t) ==
    /\ Returned(t, "start_or_adopt")
    /\ tk[t].child # None
    /\ ~tk[t].settled

\* C22: when the spawned process is not alive at the check after the settle
\* delay, start_or_adopt returns success:false with pid None and adopted:false,
\* nothing is tracked on return, and the call has published no status.
C22_DeadAtSettleRollsBack ==
    \A t \in Tasks :
        SettleFailed(t) =>
            /\ tk[t].result = SpotifydStartResult(FALSE, "failed", None, FALSE)
            /\ TrackedPid(spawned_child_pid, adopted_pid) = None
            /\ status = tk[t].e_status

\* a call that began with an adopted pid tracked forked a process that was
\* gone at the settle check, with a status receiver subscribed
C22_Witness ==
    \E t \in Tasks :
        /\ SettleFailed(t)
        /\ tk[t].e_adopted # None
        /\ procs[tk[t].child] # "S"
        /\ receivers
        /\ ~tk[t].result.success

\* C23 (as claimed): when the daemon executable exists at none of the places
\* searched (configured path, SPOTIFY_TUI_SPOTIFYD_PATH, the downloaded binary
\* under HOME, PATH) at the call, start_fresh forks nothing and no pid is ever
\* stored in spawned_child_pid.
C23_MissingBinaryNeverForks ==
    sw.pc # "off" /\ sw.given = {} =>
        /\ sw.first = "none"
        /\ sw.grand = "none"
        /\ sw.tracked = {}

\* C24: every snapshot returned by get_state and every snapshot sent to the
\* subscribers is the content the cache had at the end of some complete
\* update (the last assignment of a listener, of a command or of
\* refresh_state); no observed snapshot holds the track of a metadata event
\* with the duration_ms of before it.
C24_NoPartialUpdateObserved ==
    /\ IsSome(lsn.seen) => lsn.seen[1] \in lsn.history
    /\ IsSome(state_tx.last) => state_tx.last[1] \in lsn.history

\* C24 witness: the metadata listener holds the lock between its two
\* assignments, the cache content is one no complete update left, and both a
\* reader and the subscribers have observed snapshots
C24_Witness ==
    /\ lsn.holder = "metadata"
    /\ lsn.task["metadata"].pc = "write_duration"
    /\ state \notin lsn.history
    /\ IsSome(lsn.seen)
    /\ IsSome(state_tx.last)

\* task t, in start_or_adopt, is about to fork the fresh daemon
AtFork(t) == tk[t].op = "start_or_adopt" /\ tk[t].pc = "f_fork"

\* C25: when start_or_adopt reaches the fork of the fresh daemon it has
\* scanned by executable name exactly twice, and the processes it ran
\* kill_pid on are, in order, every process the first scan listed followed by
\* every process the second scan still listed.
C25_KillPassesBeforeFork ==
    \A t \in Tasks :
        AtFork(t) =>
            /\ Len(tk[t].scans) = 2
            /\ tk[t].kills = tk[t].scans[1] \o tk[t].scans[2]

\* C25 witness: the discovered daemon was unhealthy, the first scan listed it
\* and another process, the second scan still listed one, and the fork is next
C25_Witness ==
    \E t \in Tasks :
        /\ AtFork(t)
        /\ tk[t].found # None
        /\ Len(tk[t].scans[1]) = 2
        /\ Len(tk[t].scans[2]) = 1

\* no supervisor task and no controller call is in progress
Quiescent == ct.pc = "idle" /\ \A t \in Tasks : tk[t].pc \in {"idle", "retired"}

\* the counters of the bounded loops stay within their caps
LoopsBounded ==
    /\ \A t \in Tasks :
          /\ tk[t].polls <= GracePolls
          /\ tk[t].attempt <= RegistrationPolls
          /\ Len(tk[t].scans) <= 2
          /\ Cardinality(tk[t].forks) <= 1
    /\ ct.attempt <= MaxRetries

\* a task stops waiting for start_lock only by coming to hold it
LeavesQueueHolding ==
    \A t \in Tasks :
        tk[t].pc = "s_lock" /\ tk'[t].pc # "s_lock" => start_lock' = t

\* C26: under fair scheduling every start_or_adopt, stop and connect that was
\* begun returns: from some point on nothing is in progress and nobody waits
\* for start_lock, which a waiting caller leaves only by acquiring it.  No
\* kill_pid polls more than 20 times, no registration wait more than 30, no
\* connect tries more than 3 times, no start_or_adopt scans more than twice or
\* forks more than once.
C26_OperationsTerminate ==
    /\ []LoopsBounded
    /\ [][LeavesQueueHolding]_vars
    /\ <>[]Quiescent

\* C26 witness: a start_or_adopt waits for start_lock while the holder is in
\* kill_pid
C26_Witness ==
    \E t, u \in Tasks :
        /\ tk[t].pc = "s_lock"
        /\ start_lock = u
        /\ u # t
        /\ tk[u].kpid # None

\* the step taken is listener l finding that the value of its event cannot
\* be read
ReadFailed(l) ==
    /\ lsn.task[l].pc = "get"
    /\ lsn'.task[l].pc = "next"

\* the step taken is listener l leaving its loop
Stops(l) ==
    /\ lsn.task[l].pc # "stopped"
    /\ lsn'.task[l].pc = "stopped"

\* C27: a listener whose event cannot be read leaves the cached snapshot and
\* the channel as they are and waits for its next event; a listener leaves
\* its loop only from that wait, when its stream has ended; and neither a
\* failed read nor a stop of one listener moves the other listener.
C27_ListenersIndependent ==
    [][\A l \in Listeners :
          /\ ReadFailed(l) =>
                /\ state' = state
                /\ state_tx' = state_tx
                /\ lsn'.task[l].last = "err"
          /\ Stops(l) =>
                /\ lsn.task[l].pc = "next"
                /\ lsn'.task[l].last = "end"
          /\ ReadFailed(l) \/ Stops(l) =>
                \A o \in Listeners \ {l} : lsn'.task[o] = lsn.task[o]]_vars

\* C27 witness: the status listener has stopped and the metadata listener,
\* after an event it could not read, is handling a later one
C27_Witness ==
    /\ lsn.task["status"].pc = "stopped"
    /\ lsn.task["metadata"].pc = "get"
    /\ lsn.task["metadata"].last = "err"

\* the step taken is a send on the state-change channel by task t
Publishes(t) ==
    /\ state_tx' # state_tx
    /\ lsn'.task[t] # lsn.task[t]

\* C28 (as claimed): whenever a task sends a snapshot on the state-change
\* channel, be it a listener, refresh_state or one of play_pause, set_volume,
\* set_shuffle and set_repeat, it does not hold the snapshot write lock.
C28_PublishesAfterRelease ==
    [][\A t \in LockTasks : Publishes(t) => lsn.holder # t]_vars

\* the caller has read and removed the hand-off file
HandedOff == sw.removed

\* C29 (as claimed): the caller reads the hand-off file only after the first
\* child has exited; once it has read it, it holds exactly the grandchild's
\* pid whenever the second fork succeeded, and has failed with nothing
\* tracked whenever it did not; and the file is gone.
C29_HandoffGivesFinalPid ==
    /\ sw.pc \in {"read", "remove"} \/ HandedOff => sw.first = "reaped"
    /\ HandedOff /\ sw.pid2 # 0 => sw.child_pid = sw.pid2
    /\ HandedOff /\ sw.pid2 = 0 =>
          /\ sw.pc = "failed"
          /\ sw.err = "Failed to get grandchild PID"
          /\ sw.tracked = {}
    /\ HandedOff => sw.pid_file = NoneOpt

\* no supervisor operation is between its first and its last instruction
NoOperationInProgress == \A t \in Tasks : tk[t].pc \in {"idle", "done", "retired"}

\* C30 (as claimed): whenever no supervisor operation is in progress,
\* get_status().running is true exactly when get_tracked_pid() is Some, and
\* then get_status().pid is the tracked pid.
C30_StatusAgreesWithTracked ==
    NoOperationInProgress =>
        /\ status.running <=> TrackedPid(spawned_child_pid, adopted_pid) # None
        /\ status.running => status.pid = TrackedPid(spawned_child_pid, adopted_pid)

\* a stop (task s) and a start_or_adopt (task a) have both returned
BothReturned(s, a) ==
    /\ tk[s].op = "stop" /\ tk[s].pc = "done"
    /\ tk[a].op = "start_or_adopt" /\ tk[a].pc = "done"

\* stop of task s sent pid p a termination signal
StopSignalled(s, p) == \E g \in {"TERM", "KILL"} : <<p, g>> \in tk[s].sent

\* C31 (as claimed): once a stop and a start_or_adopt that ran together have
\* both returned, every live process the start_or_adopt spawned is recorded in
\* spawned_child_pid or was sent a termination signal by the stop, and the
\* status does not say running:true while nothing is tracked.
C31_ConcurrentStopLeavesNoUntracked ==
    \A s, a \in Tasks :
        BothReturned(s, a) =>
            /\ \A p \in tk[a].forks :
                  procs[p] = "S" => spawned_child_pid = p \/ StopSignalled(s, p)
            /\ ~(status.running /\ TrackedPid(spawned_child_pid, adopted_pid) = None)

\* no command, refresh_state or listener event is between its read of the
\* daemon and its send on the channel
NoUpdateInFlight ==
    /\ T("call").pc = "idle"
    /\ \A l \in Listeners : T(l).pc \in {"next", "stopped"}

\* C32 (as claimed): when every snapshot update has completed, the last
\* snapshot sent on the state-change channel is the cached snapshot that
\* get_state returns.
C32_LastPublishedIsCached ==
    NoUpdateInFlight /\ lsn.begun > 0 /\ IsSome(state_tx.last)
        => state_tx.last = Some(state)

\* C33 (as claimed): once the status listener has applied the daemon's latest
\* change of playback status and every update, a refresh_state that was in
\* flight included, has completed, the cached is_playing is the daemon's
\* playback status.
C33_RefreshKeepsNewerStatus ==
    NoUpdateInFlight /\ lsn.fresh => state.is_playing = (lsn.daemon = Playing)

\* ---------------------------------------------------------------- reconnect
\* connect called again on a connected controller, and an event of the
\* playback status afterwards
MaxConnects == 2
MaxReconnectOps == 3

\* lib.rs: connect() is called, whatever the number of earlier connects
Reconnect ==
    /\ ct.pc = "idle"
    /\ lt.pc = "idle"
    /\ listeners < MaxConnects
    /\ ops < MaxReconnectOps
    /\ ops' = ops + 1
    /\ ct' = [IdleCall EXCEPT !.pc = "tc_session", !.op = "connect",
                              !.e_state = state, !.e_tail = state_tx.tail,
                              !.e_player = player, !.e_receiving = Receiving]
    /\ UNCHANGED <<connection, player, state, state_tx, rx, listeners, lt, md>>
    /\ SupervisorIdle

ReconnectNext ==
    \/ Reconnect
    \/ ConnectStep
    \/ StatusEvent(MaxReconnectOps)
    \/ StatusWrite
    \/ ListenerSend

ReconnectSpec == CtlInit /\ [][ReconnectNext]_vars

\* C34 (as claimed): at most one playback-status listener and at most one
\* metadata listener run for a controller, however many times connect has
\* succeeded.
C34_OneListenerPair == listeners <= 1

\* C35 (as claimed): a start_or_adopt that began with a process tracked in
\* spawned_child_pid and ends with that process alive does not end with its
\* pid in adopted_pid (no process enters the table but by the supervisor's
\* own fork, so the pid is that same process).
C35_SpawnedNeverAdopted ==
    \A t \in Tasks :
        /\ tk[t].op = "start_or_adopt"
        /\ tk[t].pc = "done"
        /\ tk[t].e_spawned # None
        /\ procs[tk[t].e_spawned] = "S"
        => adopted_pid # tk[t].e_spawned

\* the fields of the cached snapshot
PlaybackFields == DOMAIN DefaultPlaybackState

\* the fields the call or listener event in progress may change: its own
\* for a partial update, none for next, previous and seek, and every field
\* for connect and refresh_state, which replace the snapshot
OwnFields ==
    CASE ct.op = "set_volume" -> {"volume"}
      [] ct.op = "set_shuffle" -> {"shuffle"}
      [] ct.op = "set_repeat" -> {"repeat"}
      [] ct.op = "play_pause" -> {"is_playing"}
      [] ct.op \in {"next", "previous", "seek"} -> {}
      [] ct.op \in {"connect", "refresh_state"} -> PlaybackFields
      [] lt.kind = "status" -> {"is_playing"}
      [] lt.kind = "metadata" -> {"track", "duration_ms"}
      [] OTHER -> {}

\* C36: every step of set_volume, set_shuffle, set_repeat, play_pause, of the
\* status listener and of the metadata listener leaves every field of the
\* cached snapshot but its own as it was, position_ms included, and every
\* step of next, previous and seek leaves the whole snapshot as it was.
C36_PartialUpdatesKeepOtherFields ==
    [][\A f \in PlaybackFields \ OwnFields : state'[f] = state[f]]_vars

\* C36 witness: set_volume has returned with a new volume in a snapshot whose
\* position, track and playing flag had been filled by an earlier refresh
C36_Witness ==
    /\ ct.op = "set_volume" /\ ct.pc = "done" /\ ct.result = Ok(FALSE)
    /\ state.volume = ct.volume
    /\ state.volume # ct.e_state.volume
    /\ state.position_ms > 0
    /\ state.is_playing
    /\ IsSome(state.track)

====
